---- MODULE Spec2Model ----
(***************************************************************************)
(* Risk metrics and time-series alignment engine of ybwlz/streamliy.       *)
(*                                                                         *)
(* The pipeline is a pure, single-threaded transformation                  *)
(*   daily P&L  -> return series  (Return Series Builder)                  *)
(*   benchmark closes -> aligned benchmark returns (Benchmark Aligner)     *)
(*   (Dp, Dm, trade statistics) -> metrics mapping (Metrics Engine)        *)
(* implemented several times in the repository (task3/risk.py,            *)
(* task3/risk3.py, task3/data.py, task4/imrisk.py, task4/pac.py,           *)
(* task4/deep.py).  Each implementation is modelled by its own operators.  *)
(*                                                                         *)
(* Floating-point numbers are modelled as exact rationals extended with    *)
(* NaN and +/-Inf (IEEE/numpy semantics for the non-finite cases).         *)
(* Irrational results (square roots, fractional powers, logarithms) are    *)
(* kept as symbolic terms whose zero test is exact.                        *)
(***************************************************************************)
EXTENDS Integers, Sequences, FiniteSets, TLC

(***************************************************************************)
(* Extended rationals                                                      *)
(***************************************************************************)
Abs(x) == IF x < 0 THEN -x ELSE x

Sgn(x) == IF x < 0 THEN -1 ELSE IF x > 0 THEN 1 ELSE 0

RECURSIVE GCD(_, _)
GCD(a, b) == IF b = 0 THEN a ELSE GCD(b, a % b)

\* the rational n/d in lowest terms with a positive denominator (d # 0)
Q(n, d) ==
    LET g == GCD(Abs(n), Abs(d))
        s == IF d < 0 THEN -1 ELSE 1
    IN  [k |-> "fin", n |-> s * (n \div g), d |-> s * (d \div g)]

Z(i) == [k |-> "fin", n |-> i, d |-> 1]

NaN == [k |-> "nan", n |-> 0, d |-> 1]

PInf == [k |-> "inf", n |-> 1, d |-> 1]

NInf == [k |-> "inf", n |-> -1, d |-> 1]

Zero == Z(0)

One == Z(1)

IsNaN(x) == x.k = "nan"

IsInf(x) == x.k = "inf"

IsFin(x) == x.k = "fin"

\* sign of a value that is not NaN
SignOf(x) == Sgn(x.n)

InfOf(s) == IF s < 0 THEN NInf ELSE PInf

Neg(x) == IF IsFin(x) THEN [x EXCEPT !.n = -x.n]
          ELSE IF IsInf(x) THEN InfOf(-x.n) ELSE NaN

Add(x, y) ==
    IF IsNaN(x) \/ IsNaN(y) THEN NaN
    ELSE IF IsInf(x) /\ IsInf(y) THEN (IF x.n = y.n THEN x ELSE NaN)
    ELSE IF IsInf(x) THEN x
    ELSE IF IsInf(y) THEN y
    ELSE Q(x.n * y.d + y.n * x.d, x.d * y.d)

Sub(x, y) == Add(x, Neg(y))

Mul(x, y) ==
    IF IsNaN(x) \/ IsNaN(y) THEN NaN
    ELSE IF IsInf(x) \/ IsInf(y)
         THEN (IF SignOf(x) * SignOf(y) = 0 THEN NaN ELSE InfOf(SignOf(x) * SignOf(y)))
    ELSE Q(x.n * y.n, x.d * y.d)

\* numpy / pandas division: x/0 is +/-Inf, 0/0 is NaN, no exception
Div(x, y) ==
    IF IsNaN(x) \/ IsNaN(y) THEN NaN
    ELSE IF IsInf(x) THEN (IF IsInf(y) THEN NaN
                           ELSE InfOf(x.n * (IF y.n < 0 THEN -1 ELSE 1)))
    ELSE IF IsInf(y) THEN Zero
    ELSE IF y.n = 0 THEN (IF x.n = 0 THEN NaN ELSE InfOf(x.n))
    ELSE Q(x.n * y.d, x.d * y.n)

\* comparisons: every comparison with NaN is false
Lt(x, y) ==
    IF IsNaN(x) \/ IsNaN(y) THEN FALSE
    ELSE IF IsInf(x) THEN (x.n < 0 /\ ~(IsInf(y) /\ y.n < 0))
    ELSE IF IsInf(y) THEN y.n > 0
    ELSE x.n * y.d < y.n * x.d

Gt(x, y) == Lt(y, x)

Le(x, y) == ~IsNaN(x) /\ ~IsNaN(y) /\ ~Lt(y, x)

Ge(x, y) == Le(y, x)

\* IEEE equality (NaN differs from everything, itself included)
Eq(x, y) == ~IsNaN(x) /\ ~IsNaN(y) /\ x = y

AbsQ(x) == IF IsNaN(x) THEN NaN ELSE IF IsInf(x) THEN PInf ELSE [x EXCEPT !.n = Abs(x.n)]

\* x > 1e-10: n/d > 1/10^10 iff n > d/10^10 iff n > floor(floor(d/10^5)/10^5)
GtEps(x) ==
    IF IsNaN(x) THEN FALSE
    ELSE IF IsInf(x) THEN x.n > 0
    ELSE x.n > (x.d \div 100000) \div 100000

\* np.maximum: NaN propagates
MaxQ(x, y) == IF IsNaN(x) \/ IsNaN(y) THEN NaN ELSE IF Lt(x, y) THEN y ELSE x

MinQ(x, y) == IF IsNaN(x) \/ IsNaN(y) THEN NaN ELSE IF Lt(y, x) THEN y ELSE x

(***************************************************************************)
(* Sequences of numbers                                                    *)
(***************************************************************************)
SeqUpTo(S, n) == UNION {[1..k -> S] : k \in 0..n}

SeqFromTo(S, m, n) == UNION {[1..k -> S] : k \in m..n}

RECURSIVE SumInt(_)
SumInt(s) == IF Len(s) = 0 THEN 0 ELSE Head(s) + SumInt(Tail(s))

RECURSIVE SumQ(_)
SumQ(s) == IF Len(s) = 0 THEN Zero ELSE Add(Head(s), SumQ(Tail(s)))

RECURSIVE ProdQ(_)
ProdQ(s) == IF Len(s) = 0 THEN One ELSE Mul(Head(s), ProdQ(Tail(s)))

\* s[:n]
Take(s, n) == SubSeq(s, 1, IF n < Len(s) THEN n ELSE Len(s))

MinInt(a, b) == IF a < b THEN a ELSE b

\* 1 + s, elementwise
OnePlus(s) == [i \in 1..Len(s) |-> Add(One, s[i])]

\* np.cumprod(s)
CumProd(s) == [i \in 1..Len(s) |-> ProdQ(SubSeq(s, 1, i))]

\* s[~np.isnan(s)][~np.isinf(s)]
Finite(s) == SelectSeq(s, IsFin)

\* Python None / a value
None == [some |-> FALSE, v |-> <<>>]

Some(x) == [some |-> TRUE, v |-> x]

(***************************************************************************)
(* Irrational values                                                       *)
(*                                                                         *)
(* The returns of the model are chosen so that every compounded value      *)
(* prod(1 + r) is 0 or a power of two.  A fractional power (2^a)^x is then *)
(* the term 2^(a*x), known exactly by its exponent, and an annualised      *)
(* return is a "lin" value  c + SUM coef * 2^e  with rational c, coef, e.  *)
(* A square root of a positive rational is a "sqrt" value, a quotient of   *)
(* irrational values a "quot" value, a logarithm a "log" value.            *)
(***************************************************************************)
RECURSIVE V2Int(_)
V2Int(n) == IF n % 2 = 0 THEN 1 + V2Int(n \div 2) ELSE 0

RECURSIVE OddPart(_)
OddPart(n) == IF n % 2 = 0 THEN OddPart(n \div 2) ELSE n

\* 2-adic valuation of a rational x # 0
V2(x) == V2Int(Abs(x.n)) - V2Int(x.d)

IsPowerOfTwo(x) == IsFin(x) /\ x.n > 0 /\ OddPart(x.n) = 1 /\ OddPart(x.d) = 1

\* log2 of a power of two (no value exists for another base)
Log2(x) == CHOOSE a \in {V2(x)} : IsPowerOfTwo(x)

\* floor and fractional part of a rational
FloorQ(x) == IF x.n >= 0 THEN x.n \div x.d ELSE -((-x.n + x.d - 1) \div x.d)

FracQ(x) == Sub(x, Z(FloorQ(x)))

IsLin(x) == x.k = "lin"

IsRat(x) == x.k \in {"fin", "nan", "inf"}

ToLin(x) == IF IsLin(x) THEN x ELSE [k |-> "lin", c |-> x, t |-> {}]

NormLin(l) ==
    LET t == {m \in l.t : m.coef # Zero}
    IN  IF t = {} THEN l.c ELSE [k |-> "lin", c |-> l.c, t |-> t]

CoefOf(l, e) == IF \E m \in l.t : m.e = e THEN (CHOOSE m \in l.t : m.e = e).coef ELSE Zero

\* x + y, x - y, q * x for rational or lin x, y and rational q
LAdd(x, y) ==
    IF IsRat(x) /\ IsRat(y) THEN Add(x, y)
    ELSE IF (IsRat(x) /\ ~IsFin(x)) \/ (IsRat(y) /\ ~IsFin(y)) THEN NaN
    ELSE LET a == ToLin(x)
             b == ToLin(y)
         IN  NormLin([k |-> "lin", c |-> Add(a.c, b.c),
                      t |-> {[e |-> e, coef |-> Add(CoefOf(a, e), CoefOf(b, e))] :
                                e \in {m.e : m \in a.t \cup b.t}}])

LScale(q, x) ==
    IF IsRat(x) THEN Mul(q, x)
    ELSE IF ~IsFin(q) THEN NaN
    ELSE NormLin([k |-> "lin", c |-> Mul(q, x.c),
                  t |-> {[e |-> m.e, coef |-> Mul(q, m.coef)] : m \in x.t}])

LSub(x, y) == LAdd(x, LScale(Z(-1), y))

\* b ** x for a rational exponent x > 0.  A negative base has a real power
\* for an integer exponent only: numpy returns nan otherwise, and a Python
\* float a complex number, which is kept here as not-a-number too.
Pow(b, x) ==
    LET sign == IF Lt(b, Zero) /\ x.n % 2 = 1 THEN Neg(One) ELSE One
        mag  == AbsQ(b)
    IN  IF ~IsFin(b) THEN b
        ELSE IF Lt(b, Zero) /\ x.d # 1 THEN NaN
        ELSE IF mag = Zero \/ mag = One THEN Mul(sign, mag)
        ELSE [k |-> "lin", c |-> Zero, t |-> {[e |-> Mul(Z(Log2(mag)), x), coef |-> sign]}]

\* np.sqrt(r) for a rational r >= 0
Sqrt(r) ==
    IF ~IsFin(r) THEN r
    ELSE IF r = Zero THEN Zero
    ELSE [k |-> "sqrt", r |-> r]

\* q * s for a rational q > 0 and a square root s
SqrtScale(q, s) == IF IsRat(s) THEN Mul(q, s) ELSE [k |-> "sqrt", r |-> Mul(Mul(q, q), s.r)]

\* the terms of a lin value, its constant included
Monomials(x) == x.t \cup (IF x.c = Zero THEN {} ELSE {[e |-> Zero, coef |-> x.c]})

\* a * 2^i + b * 2^j = 0 for rationals a, b # 0 and exponents with i - j an integer
TwoTermsCancel(m1, m2) ==
    LET r == Div(Neg(m1.coef), m2.coef)
    IN  IsPowerOfTwo(r) /\ Z(V2(r)) = Sub(m2.e, m1.e)

\* the 2-adic valuation of a term whose exponent is e.f + integer
Valuation(m) == V2(m.coef) + FloorQ(m.e)

\* three terms of one class do not cancel when one has the least valuation alone
LeastAlone(M) == \E m \in M : \A o \in M \ {m} : Valuation(o) > Valuation(m)

\* Exact zero test of c + SUM coef * 2^e.  The powers 2^f, f in [0, 1)
\* rational, are linearly independent over the rationals, so the terms of
\* each class of exponents modulo 1 must cancel among themselves.
LinIsZero(x) ==
    LET M == Monomials(x)
    IN  IF M = {} THEN TRUE
        ELSE IF \E m \in M : \A o \in M \ {m} : FracQ(o.e) # FracQ(m.e) THEN FALSE
        ELSE IF Cardinality(M) = 2
             THEN LET m1 == CHOOSE m \in M : TRUE
                      m2 == CHOOSE m \in M : m # m1
                  IN  TwoTermsCancel(m1, m2)
        ELSE ~LeastAlone(M)

\* x / y
Quot(x, y) ==
    IF IsRat(x) /\ IsRat(y) THEN Div(x, y)
    ELSE IF (IsRat(x) /\ IsNaN(x)) \/ (IsRat(y) /\ IsNaN(y)) THEN NaN
    ELSE [k |-> "quot", num |-> x, den |-> y]

\* (log(a) - log(b)) * 100 for rationals a, b (the log of a negative is nan)
LogRatio100(a, b) ==
    IF IsNaN(a) \/ IsNaN(b) \/ Lt(a, Zero) \/ Lt(b, Zero) THEN NaN
    ELSE IF a = Zero /\ b = Zero THEN NaN
    ELSE IF a = Zero THEN NInf
    ELSE IF b = Zero THEN PInf
    ELSE IF a = b THEN Zero
    ELSE [k |-> "log", r |-> Div(a, b)]

\* v = 0
RECURSIVE IsZeroVal(_)
IsZeroVal(v) ==
    IF IsRat(v) THEN v = Zero
    ELSE IF IsLin(v) THEN LinIsZero(v)
    ELSE IF v.k = "quot" THEN IsZeroVal(v.num)
    ELSE FALSE

\* v > 1e-10 (a square root or a power of a 31-bit rational is never that small)
GtEpsVal(v) == IF IsRat(v) THEN GtEps(v) ELSE v.k = "sqrt"

(***************************************************************************)
(* numpy statistics                                                        *)
(***************************************************************************)
\* np.mean
Mean(s) == Div(SumQ(s), Z(Len(s)))

\* sum of (x - mean(x)) * (y - mean(y))
CoMoment(x, y) ==
    SumQ([i \in 1..Len(x) |-> Mul(Sub(x[i], Mean(x)), Sub(y[i], Mean(y)))])

\* np.var(s, ddof)
Var(s, ddof) == IF Len(s) <= ddof THEN NaN ELSE Div(CoMoment(s, s), Z(Len(s) - ddof))

\* np.cov(x, y, ddof)[0, 1]
Cov(x, y, ddof) == IF Len(x) <= ddof THEN NaN ELSE Div(CoMoment(x, y), Z(Len(x) - ddof))

\* np.std(s, ddof) * np.sqrt(days) * scale
AnnualStd(s, ddof, days, scale) == Sqrt(Mul(Var(s, ddof), Z(days * scale * scale)))

RECURSIVE MinSeq(_)
MinSeq(s) == IF Len(s) = 1 THEN s[1] ELSE MinQ(s[1], MinSeq(Tail(s)))

RECURSIVE MaxSeq(_)
MaxSeq(s) == IF Len(s) = 1 THEN s[1] ELSE MaxQ(s[1], MaxSeq(Tail(s)))

\* np.maximum.accumulate
RunningMax(s) == [i \in 1..Len(s) |-> MaxSeq(SubSeq(s, 1, i))]

(***************************************************************************)
(* Program constants                                                       *)
(***************************************************************************)
TRADING_DAYS_PER_YEAR == 250

DEFAULT_CAPITAL == 1000000

\* Rf = 0.04
Rf == Q(4, 100)

\* task3/risk3.py annualises with 252 trading days and 365.25 calendar days
RISK3_TRADING_DAYS == 252

RISK3_YEAR_DAYS == Q(36525, 100)

(***************************************************************************)
(* Bounds of the model                                                     *)
(***************************************************************************)
MaxDays == 3

\* calendar dates are 1..MaxDate
MaxDate == 4

\* daily returns and benchmark returns handed to the Metrics Engine
RetVals == {NaN, Z(-2), Z(-1), Q(-1, 2), Zero, One}

BenchVals == {NaN, Zero, One}

\* initial capital of task3 (|amount of the first fill|, or the default)
Capitals == {DEFAULT_CAPITAL, DEFAULT_CAPITAL \div 2, 1000}

\* net P&L of one day, on the scale of the capital
PnLVals(cap) ==
    IF cap = 1000 THEN {-1000, 0, 100, -50, 200}
    ELSE {-DEFAULT_CAPITAL, -(DEFAULT_CAPITAL \div 2), 0, DEFAULT_CAPITAL \div 2} \cup
         {100000, -50000, 200000}

VARIABLES
    module,           \* the script that runs
    pc,               \* its position in the pipeline
    initial_capital,  \* initial capital
    daily_pnl,        \* daily_pnl['日盈亏'], one entry per day, ascending dates
    daily_ret,        \* the daily return series of the Return Series Builder
    trade_dates,      \* the strategy's dates, ascending (daily_pnl['日期'])
    benchmark_df,     \* what the benchmark collaborator returns
    benchmark_returns, \* the aligned benchmark returns Dm: None or a series
    trade_df,         \* the trade rows handed to the Metrics Engine, or None
    metrics           \* the Metrics Engine's result: None before it has run

vars == <<module, pc, initial_capital, daily_pnl, daily_ret,
          trade_dates, benchmark_df, benchmark_returns, trade_df, metrics>>

builderVars == <<initial_capital, daily_pnl, daily_ret>>

alignerVars == <<trade_dates, benchmark_df, benchmark_returns>>

BuilderIdle == initial_capital = DEFAULT_CAPITAL /\ daily_pnl = <<>> /\ daily_ret = <<>>

metricVars == <<trade_df, metrics>>

AlignerIdle ==
    /\ trade_dates = <<>>
    /\ benchmark_df = [kind |-> "error", dates |-> {}, closes |-> <<>>]
    /\ benchmark_returns = None

MetricsIdle == trade_df = None /\ metrics = None

(***************************************************************************)
(* Return Series Builder                                                   *)
(***************************************************************************)
\* daily_pnl['累计收益'] = daily_pnl['日盈亏'].cumsum()
CumPnL(pnl) == [i \in 1..Len(pnl) |-> SumInt(SubSeq(pnl, 1, i))]

\* the prior day's equity: initial_capital + 累计收益.shift(1).fillna(0.0)
EquityPrevInt(cap, pnl) ==
    [i \in 1..Len(pnl) |-> cap + (IF i = 1 THEN 0 ELSE CumPnL(pnl)[i - 1])]

\* equity_prev.replace(0, np.nan)
EquityPrev(cap, pnl) ==
    [i \in 1..Len(pnl) |->
        IF EquityPrevInt(cap, pnl)[i] = 0 THEN NaN ELSE Z(EquityPrevInt(cap, pnl)[i])]

\* a builder that divides by the equity at the end of the day
BuildReturnsOnClosingEquity(cap, pnl) ==
    [i \in 1..Len(pnl) |-> Div(Z(pnl[i]), Z(cap + CumPnL(pnl)[i]))]

\* a builder that divides by the initial capital on every day
BuildReturnsOnCapital(cap, pnl) == [i \in 1..Len(pnl) |-> Q(pnl[i], cap)]

\* daily return on the prior day's equity; only row 0 has the
\* pnl/initial_capital fallback; what is still non-finite becomes 0.0
BuildReturns(cap, pnl) ==
    LET raw == [i \in 1..Len(pnl) |-> Div(Z(pnl[i]), EquityPrev(cap, pnl)[i])]
        fb  == IF IsNaN(raw[1])
               THEN [raw EXCEPT ![1] = Div(Z(pnl[1]), Z(cap))]
               ELSE raw
    IN  [i \in 1..Len(pnl) |-> IF IsFin(fb[i]) THEN fb[i] ELSE Zero]

\* task3/risk3.py: 日收益率 = 日盈亏 / initial_capital * 100, then / 100
Risk3BuildReturns(cap, pnl) ==
    [i \in 1..Len(pnl) |-> Div(Mul(Div(Z(pnl[i]), Z(cap)), Z(100)), Z(100))]

BuilderModules == {"risk", "risk3", "imrisk", "pac"}

BuilderInit ==
    /\ module \in BuilderModules
    /\ pc = "start"
    /\ initial_capital \in (IF module \in {"risk", "risk3"} THEN Capitals ELSE {DEFAULT_CAPITAL})
    /\ daily_pnl \in SeqFromTo(PnLVals(initial_capital), 1, MaxDays)
    /\ daily_ret = <<>>
    /\ AlignerIdle
    /\ MetricsIdle

RiskBuild ==
    /\ module = "risk" /\ pc = "start"
    /\ daily_ret' = BuildReturns(initial_capital, daily_pnl)
    /\ pc' = "built"
    /\ UNCHANGED <<module, initial_capital, daily_pnl, alignerVars, metricVars>>

ImriskBuild ==
    /\ module = "imrisk" /\ pc = "start"
    /\ daily_ret' = BuildReturns(initial_capital, daily_pnl)
    /\ pc' = "built"
    /\ UNCHANGED <<module, initial_capital, daily_pnl, alignerVars, metricVars>>

PacBuild ==
    /\ module = "pac" /\ pc = "start"
    /\ daily_ret' = BuildReturns(initial_capital, daily_pnl)
    /\ pc' = "built"
    /\ UNCHANGED <<module, initial_capital, daily_pnl, alignerVars, metricVars>>

Risk3Build ==
    /\ module = "risk3" /\ pc = "start"
    /\ daily_ret' = Risk3BuildReturns(initial_capital, daily_pnl)
    /\ pc' = "built"
    /\ UNCHANGED <<module, initial_capital, daily_pnl, alignerVars, metricVars>>

BuilderNext == RiskBuild \/ ImriskBuild \/ PacBuild \/ Risk3Build

SpecBuilder == BuilderInit /\ [][BuilderNext]_vars

(***************************************************************************)
(* Claims about the Return Series Builder (checked under SpecBuilder)      *)
(***************************************************************************)
Built == pc = "built"

Days == 1..Len(daily_pnl)

\* initialCapital * prod(1 + r[i]) = initialCapital + final cumulativePnL
RoundTrip ==
    Mul(Z(initial_capital), ProdQ(OnePlus(daily_ret)))
        = Z(initial_capital + SumInt(daily_pnl))

\* no P&L is booked on a day that starts with zero equity
NoPnLOnZeroEquity ==
    \A i \in Days : EquityPrevInt(initial_capital, daily_pnl)[i] = 0 => daily_pnl[i] = 0

\* C5: on every day the return is dailyPnL[i] / equityPrev[i], the base being
\* the prior day's equity initialCapital + cumulativePnL[i-1] (a day whose
\* prior equity is 0 has no such quotient and is left to C6)
C5_ReturnOnPriorEquity ==
    Built =>
        \A i \in Days :
            EquityPrevInt(initial_capital, daily_pnl)[i] # 0 =>
                daily_ret[i] = Q(daily_pnl[i], EquityPrevInt(initial_capital, daily_pnl)[i])

\* C6: on any day, the first or a later one, whose prior equity is 0 the
\* return is the fallback dailyPnL[i] / initialCapital
C6_FallbackOnAnyZeroEquityDay ==
    (Built /\ module \in {"risk", "imrisk", "pac"}) =>
        \A i \in Days :
            EquityPrevInt(initial_capital, daily_pnl)[i] = 0 =>
                daily_ret[i] = Q(daily_pnl[i], initial_capital)

\* C7 as stated: the round trip holds for all daily P&L series
C7_RoundTripAlways ==
    (Built /\ module \in {"risk", "imrisk"}) => RoundTrip

\* C7 amended: the round trip holds for every daily P&L series that books no
\* P&L on a day whose prior equity is exactly 0
C7_RoundTripUnlessRestartFromZero ==
    (Built /\ module \in {"risk", "imrisk"} /\ NoPnLOnZeroEquity) => RoundTrip

\* a built series of two or more days with P&L on the first two days, whose
\* second return differs from dailyPnL / initialCapital
C7_Witness ==
    /\ Built /\ module \in {"risk", "imrisk"} /\ NoPnLOnZeroEquity
    /\ Len(daily_pnl) >= 2
    /\ daily_pnl[1] # 0 /\ daily_pnl[2] # 0
    /\ daily_ret[2] # Q(daily_pnl[2], initial_capital)

(***************************************************************************)
(* Benchmark Aligner                                                       *)
(*                                                                         *)
(* The benchmark collaborator either fails ("error": exception, None or an *)
(* empty frame) or returns one close per date of "dates".  A close series  *)
(* is a cyclic price path indexed by the calendar date.                    *)
(***************************************************************************)
ClosePaths == {<<100, 102, 101, 105>>, <<100, 100, 100, 100>>}

Close(frame, d) == frame.closes[((d - 1) % Len(frame.closes)) + 1]

BenchFrames ==
    {[kind |-> "error", dates |-> {}, closes |-> <<>>]} \cup
    {[kind |-> "ok", dates |-> D, closes |-> p] :
        D \in SUBSET (1..MaxDate), p \in ClosePaths}

MinOf(S) == CHOOSE x \in S : \A y \in S : x <= y

MaxOf(S) == CHOOSE x \in S : \A y \in S : x >= y

RECURSIVE SortedSeq(_)
SortedSeq(S) == IF S = {} THEN <<>> ELSE <<MinOf(S)>> \o SortedSeq(S \ {MinOf(S)})

Range(s) == {s[i] : i \in DOMAIN s}

TradeDateSeqs == {SortedSeq(D) : D \in (SUBSET (1..MaxDate)) \ {{}}}

\* a variant of the returns that divides by the close of the day itself
DiffOnOwnClose(frame, D) ==
    LET ds == SortedSeq(D)
    IN  [d \in D \ {MinOf(D)} |->
            LET i == CHOOSE j \in 2..Len(ds) : ds[j] = d
            IN  Div(Sub(Z(Close(frame, ds[i])), Z(Close(frame, ds[i - 1]))),
                    Z(Close(frame, ds[i])))]

\* np.diff(prices) / prices[:-1] with dates[1:], as a function of the date
DiffReturns(frame, D) ==
    LET ds == SortedSeq(D)
    IN  [d \in D \ {MinOf(D)} |->
            LET i == CHOOSE j \in 2..Len(ds) : ds[j] = d
            IN  Div(Sub(Z(Close(frame, ds[i])), Z(Close(frame, ds[i - 1]))),
                    Z(Close(frame, ds[i - 1])))]

\* a variant of the merge that keeps the matching dates only (how='inner')
InnerMerge(dates, ret) ==
    LET hit == SelectSeq(dates, LAMBDA d : d \in DOMAIN ret)
    IN  [j \in 1..Len(hit) |-> ret[hit[j]]]

\* trade_df.merge(benchmark, on='日期', how='left'): NaN where no row matches
LeftMerge(dates, ret) ==
    [j \in 1..Len(dates) |-> IF dates[j] \in DOMAIN ret THEN ret[dates[j]] ELSE NaN]

\* a variant of ffill that also overwrites the known values that follow a
\* known value
ShiftedFill(s) ==
    [j \in 1..Len(s) |->
        LET known == {i \in 1..(j - 1) : ~IsNaN(s[i])}
        IN  IF known = {} THEN s[j] ELSE s[MaxOf(known)]]

\* Series.ffill()
FFill(s) ==
    [j \in 1..Len(s) |->
        LET known == {i \in 1..j : ~IsNaN(s[i])}
        IN  IF known = {} THEN NaN ELSE s[MaxOf(known)]]

\* Series.fillna(0.0)
FillNa0(s) == [j \in 1..Len(s) |-> IF IsNaN(s[j]) THEN Zero ELSE s[j]]

\* a variant of the fill that gives an unmatched first date the return of the
\* first matched date after it (a back-fill)
BackFillAligned(merged) ==
    LET known == {i \in 1..Len(merged) : ~IsNaN(merged[i])}
    IN  IF known = {} THEN [j \in 1..Len(merged) |-> Zero]
        ELSE FillNa0(FFill([merged EXCEPT ![1] = merged[MinOf(known)]]))

\* the fill of task3: all-NaN becomes all 0; otherwise the first NaN becomes
\* 0, the rest is forward-filled, what is left becomes 0
FillAligned(merged) ==
    IF \A j \in 1..Len(merged) : IsNaN(merged[j])
    THEN [j \in 1..Len(merged) |-> Zero]
    ELSE LET first == IF IsNaN(merged[1]) THEN [merged EXCEPT ![1] = Zero] ELSE merged
         IN  FillNa0(FFill(first))

\* task3/risk.py: closes inside [min, max] of the strategy's dates
RiskInRange(dates, frame) ==
    {d \in frame.dates : d >= MinOf(Range(dates)) /\ d <= MaxOf(Range(dates))}

RiskBenchmarkReturns(dates, frame) == DiffReturns(frame, RiskInRange(dates, frame))

\* a variant that gives up when no strategy date has a benchmark return
AlignedOrNoneOnNoMatch(dates, frame) ==
    IF frame.kind = "error" \/ frame.dates = {} THEN None
    ELSE IF Cardinality(RiskInRange(dates, frame)) < 2 THEN None
    ELSE IF \A j \in 1..Len(dates) :
                IsNaN(LeftMerge(dates, RiskBenchmarkReturns(dates, frame))[j])
         THEN None
    ELSE Some(FillAligned(LeftMerge(dates, RiskBenchmarkReturns(dates, frame))))

get_benchmark_daily_returns_aligned(dates, frame) ==
    IF frame.kind = "error" \/ frame.dates = {} THEN None
    ELSE IF Cardinality(RiskInRange(dates, frame)) < 2 THEN None
    ELSE Some(FillAligned(LeftMerge(dates, RiskBenchmarkReturns(dates, frame))))

\* task3/data.py: get_benchmark_returns over the date range of the trades
DataGetBenchmarkReturns(dates, frame) ==
    LET D == {d \in frame.dates : d >= MinOf(Range(dates)) /\ d <= MaxOf(Range(dates))}
    IN  IF frame.kind = "error" \/ frame.dates = {} THEN None
        ELSE IF D = {} THEN None
        ELSE IF Cardinality(D) < 2 THEN None
        ELSE Some(DiffReturns(frame, D))

DataAligned(dates, frame) ==
    LET r == DataGetBenchmarkReturns(dates, frame)
    IN  IF ~r.some THEN None
        ELSE Some(FillAligned(LeftMerge(dates, r.v)))

\* task4/imrisk.py: the fetch starts LOOKBACK_DAYS before the first strategy date
LOOKBACK_DAYS == 30

ImriskFetched(dates, frame) ==
    {d \in frame.dates : d >= MinOf(Range(dates)) - LOOKBACK_DAYS /\ d <= MaxOf(Range(dates))}

\* pct_change() over every fetched row (NaN on the first), then the rows
\* inside [start, end]
ImriskBenchmarkReturns(dates, frame) ==
    LET F   == ImriskFetched(dates, frame)
        pct == [d \in F |-> IF d = MinOf(F) THEN NaN ELSE DiffReturns(frame, F)[d]]
    IN  [d \in {x \in F : x >= MinOf(Range(dates))} |-> pct[d]]

get_benchmark_data(dates, frame) ==
    IF frame.kind = "error" \/ ImriskFetched(dates, frame) = {} THEN None
    ELSE IF Cardinality(ImriskFetched(dates, frame)) < 2 THEN None
    ELSE Some(FillNa0(LeftMerge(dates, ImriskBenchmarkReturns(dates, frame))))

AlignerModules == {"risk", "data", "imrisk"}

AlignerInit ==
    /\ module \in AlignerModules
    /\ pc = "start"
    /\ BuilderIdle
    /\ trade_dates \in TradeDateSeqs
    /\ benchmark_df \in BenchFrames
    /\ benchmark_returns = None
    /\ MetricsIdle

RiskAlign ==
    /\ module = "risk"
    /\ pc = "start"
    /\ benchmark_returns' = get_benchmark_daily_returns_aligned(trade_dates, benchmark_df)
    /\ pc' = "aligned"
    /\ UNCHANGED <<module, trade_dates, benchmark_df, builderVars, metricVars>>

DataAlign ==
    /\ module = "data"
    /\ pc = "start"
    /\ benchmark_returns' = DataAligned(trade_dates, benchmark_df)
    /\ pc' = "aligned"
    /\ UNCHANGED <<module, trade_dates, benchmark_df, builderVars, metricVars>>

ImriskAlign ==
    /\ module = "imrisk"
    /\ pc = "start"
    /\ benchmark_returns' = get_benchmark_data(trade_dates, benchmark_df)
    /\ pc' = "aligned"
    /\ UNCHANGED <<module, trade_dates, benchmark_df, builderVars, metricVars>>

AlignerNext == RiskAlign \/ DataAlign \/ ImriskAlign

SpecAligner == AlignerInit /\ [][AlignerNext]_vars

(***************************************************************************)
(* Claims about the Benchmark Aligner (checked under SpecAligner)          *)
(***************************************************************************)
Aligned == pc = "aligned"

\* the benchmark returns the module matches against the strategy's dates
KnownReturns ==
    LET ret == IF module = "imrisk"
               THEN ImriskBenchmarkReturns(trade_dates, benchmark_df)
               ELSE RiskBenchmarkReturns(trade_dates, benchmark_df)
    IN  [d \in {x \in DOMAIN ret : ~IsNaN(ret[x])} |-> ret[d]]

Matched(j) == trade_dates[j] \in DOMAIN KnownReturns

NoMatch == \A j \in 1..Len(trade_dates) : ~Matched(j)

\* C3: a strategy date other than the first without a matching benchmark
\* return gets the return of the closest earlier matched strategy date
\* (forward-fill), and 0 only if no earlier date matched
C3_ForwardFill ==
    (Aligned /\ benchmark_returns.some) =>
        \A j \in 2..Len(trade_dates) :
            ~Matched(j) =>
                LET prior == {i \in 1..(j - 1) : Matched(i)}
                IN  benchmark_returns.v[j] =
                        IF prior = {} THEN Zero
                        ELSE KnownReturns[trade_dates[MaxOf(prior)]]

\* the closes the module computes returns from
UsedCloses ==
    IF module = "imrisk" THEN ImriskFetched(trade_dates, benchmark_df)
    ELSE RiskInRange(trade_dates, benchmark_df)

\* the fetch failed, or fewer than two closes are available
Unavailable == benchmark_df.kind = "error" \/ Cardinality(UsedCloses) < 2

ZeroFilled == Some([j \in 1..Len(trade_dates) |-> Zero])

\* C4 as stated: when no benchmark return exists for the strategy's dates the
\* aligner returns None, not a zero-filled series
C4_NoneWhenNoReturnMatches ==
    (Aligned /\ (Unavailable \/ NoMatch)) => benchmark_returns = None

\* C4 amended: the aligner returns None exactly when the fetch fails or yields
\* fewer than two closes; when closes exist but no return matches a strategy
\* date the result is one 0 per strategy date
C4_NoneOnlyWithoutCloses ==
    Aligned =>
        /\ benchmark_returns = None <=> Unavailable
        /\ (~Unavailable /\ NoMatch) => benchmark_returns = ZeroFilled

C4_Witness ==
    /\ Aligned
    /\ module = "risk"
    /\ ~Unavailable
    /\ NoMatch
    /\ Len(trade_dates) >= 2
    /\ benchmark_returns = ZeroFilled

(***************************************************************************)
(* Metrics Engine of task3/risk.py                                         *)
(***************************************************************************)
\* s[mask] for the set of positions I
SelectIdx(s, I) == [j \in 1..Cardinality(I) |-> s[SortedSeq(I)[j]]]

\* ~(isnan(Dp) | isnan(Dm) | isinf(Dp) | isinf(Dm)) over the first min_len days
PairMask(Dp, Dm) == {i \in 1..MinInt(Len(Dp), Len(Dm)) : IsFin(Dp[i]) /\ IsFin(Dm[i])}

PairedP(Dp, Dm) == SelectIdx(Dp, PairMask(Dp, Dm))

PairedM(Dp, Dm) == SelectIdx(Dm, PairMask(Dp, Dm))

\* x - y, elementwise over the first min_len entries
Excess(x, y) == [i \in 1..MinInt(Len(x), Len(y)) |-> Sub(x[i], y[i])]

\* (s > 0).sum() and the like
CountIf(s, Test(_)) == Len(SelectSeq(s, Test))

\* v > 0 and v < 1e-10 for a value that may be a square root
GtZeroVal(v) == IF IsRat(v) THEN Gt(v, Zero) ELSE v.k = "sqrt"

LtEpsVal(v) == IsRat(v) /\ ~IsNaN(v) /\ ~GtEps(v)

get_total_returns(Pend, Pstart) ==
    IF Pstart = Zero THEN Zero
    ELSE Mul(Div(Sub(Pend, Pstart), Pstart), Z(100))

get_total_annualized_returns(P, n) ==
    IF n <= 0 THEN Zero
    ELSE LScale(Z(100), LSub(Pow(Add(One, P), Q(TRADING_DAYS_PER_YEAR, n)), One))

\* a variant of get_beta with the population covariance
BetaPopulation(Dp, Dm) ==
    IF ~Dm.some THEN Zero
    ELSE LET p == PairedP(Dp, Dm.v)
             m == PairedM(Dp, Dm.v)
         IN  IF Len(p) < 2 THEN Zero
             ELSE IF GtEps(Var(m, 0)) THEN Div(Cov(p, m, 0), Var(m, 0)) ELSE Zero

get_beta(Dp, Dm) ==
    IF ~Dm.some THEN Zero
    ELSE LET p == PairedP(Dp, Dm.v)
             m == PairedM(Dp, Dm.v)
         IN  IF Len(p) < 2 THEN Zero
             ELSE IF GtEps(Var(m, 0)) THEN Div(Cov(p, m, 1), Var(m, 0)) ELSE Zero

get_alpha(Rp, Rm, beta) ==
    IF ~Rm.some THEN Zero
    ELSE LScale(Z(100), LSub(Rp, LAdd(Rf, LScale(beta, LSub(Rm.v, Rf)))))

get_sharpe(Rp, sigma) ==
    IF sigma = Zero \/ LtEpsVal(sigma) THEN Zero
    ELSE Quot(LSub(Rp, Rf), sigma)

get_sortino(Rp, sigma) ==
    IF sigma = Zero \/ LtEpsVal(sigma) THEN Zero
    ELSE Quot(LSub(Rp, Rf), sigma)

get_information_ratio(Rp, Rm, Dp, Dm) ==
    IF ~Dm.some \/ ~Rm.some THEN Zero
    ELSE IF Len(Dp) < 2 \/ Len(Dm.v) < 2 THEN Zero
    ELSE LET sigma_t == AnnualStd(Excess(Dp, Dm.v), 0, TRADING_DAYS_PER_YEAR, 100)
         IN  IF GtEpsVal(sigma_t) THEN Quot(LSub(Rp, Rm.v), sigma_t) ELSE Zero

get_algorithm_volatility(Dp) ==
    IF Len(Finite(Dp)) < 2 THEN Zero
    ELSE AnnualStd(Finite(Dp), 1, TRADING_DAYS_PER_YEAR, 100)

get_benchmark_volatility(Dm) ==
    IF ~Dm.some THEN Zero
    ELSE IF Len(Finite(Dm.v)) < 2 THEN Zero
    ELSE AnnualStd(Finite(Dm.v), 1, TRADING_DAYS_PER_YEAR, 100)

\* min over the days of (cumulative return - its running maximum), in percent
DrawdownOfCum(cum) == Mul(MinSeq(Excess(cum, RunningMax(cum))), Z(100))

get_max_drawdown(Dp) ==
    LET r   == Finite(Dp)
        cum == [i \in 1..Len(r) |-> Sub(CumProd(OnePlus(r))[i], One)]
    IN  IF Len(r) = 0 THEN Zero ELSE DrawdownOfCum(cum)

get_downside_risk(Dp) ==
    LET r    == Finite(Dp)
        n    == Len(r)
        m(i) == Mean(SubSeq(r, 1, i))
        sq   == [i \in 1..n |-> IF Lt(r[i], m(i))
                                 THEN Mul(Sub(r[i], m(i)), Sub(r[i], m(i))) ELSE Zero]
    IN  IF n < 2 THEN Zero
        ELSE Sqrt(Mul(Mul(Q(TRADING_DAYS_PER_YEAR, n), SumQ(sq)), Z(100 * 100)))

get_win_rate(win_trades, loss_trades) ==
    IF win_trades + loss_trades > 0
    THEN Mul(Q(win_trades, win_trades + loss_trades), Z(100)) ELSE Zero

get_daily_win_rate(Dp, Dm) ==
    IF ~Dm.some THEN Zero
    ELSE LET sp == PairedP(Dp, Dm.v)
             bm == PairedM(Dp, Dm.v)
         IN  IF Len(sp) = 0 THEN Zero
             ELSE Mul(Q(Cardinality({i \in 1..Len(sp) : Gt(sp[i], bm[i])}), Len(sp)), Z(100))

get_profit_loss_ratio(total_profit, total_loss) ==
    IF total_loss > 0 THEN Q(total_profit, total_loss) ELSE Zero

\* EI = (1 + sp_cum) / (1 + bm_cum) - 1 with sp_cum = cumprod(1 + sp) - 1
ExcessIndex(sp, bm) ==
    [i \in 1..Len(sp) |->
        Sub(Div(Add(One, Sub(CumProd(OnePlus(sp))[i], One)),
                Add(One, Sub(CumProd(OnePlus(bm))[i], One))), One)]

\* np.diff(s, prepend=0)
DiffPrepend0(s) == [i \in 1..Len(s) |-> IF i = 1 THEN Sub(s[1], Zero) ELSE Sub(s[i], s[i - 1])]

get_aei(Dp, Dm) ==
    IF ~Dm.some THEN Zero
    ELSE LET sp == PairedP(Dp, Dm.v)
             bm == PairedM(Dp, Dm.v)
         IN  IF Len(sp) = 0 THEN Zero
             ELSE Mul(Mean(DiffPrepend0(ExcessIndex(sp, bm))), Z(100))

get_excess_return_max_drawdown(Dp, Dm) ==
    IF ~Dm.some THEN Zero
    ELSE LET sp == PairedP(Dp, Dm.v)
             bm == PairedM(Dp, Dm.v)
         IN  IF Len(sp) = 0 THEN Zero
             ELSE DrawdownOfCum(ExcessIndex(sp, bm))

get_excess_return_sharpe(Dp, Dm) ==
    IF ~Dm.some THEN Zero
    ELSE LET sp     == PairedP(Dp, Dm.v)
             bm     == PairedM(Dp, Dm.v)
             excess == Excess(sp, bm)
             RpEI   == Mul(Mul(Mean(excess), Z(TRADING_DAYS_PER_YEAR)), Z(100))
             sigma  == AnnualStd(excess, 0, TRADING_DAYS_PER_YEAR, 100)
         IN  IF Len(sp) < 2 THEN Zero
             ELSE IF sigma = Zero THEN Zero
             ELSE Quot(Sub(RpEI, Mul(Rf, Z(100))), sigma)

\* trade_df[trade_df['交易类型'].str.contains('平')]['平仓盈亏']
ClosePnL(rows) ==
    LET closing == SelectSeq(rows, LAMBDA row : row.type = "close")
    IN  [i \in 1..Len(closing) |-> closing[i].pnl]

Positive(x) == x > 0

Negative(x) == x < 0

NonPositive(x) == x <= 0

GtZero(x) == Gt(x, Zero)

LtZero(x) == Lt(x, Zero)

\* a variant of the win rate without the guards for an empty set of trades
RiskWinRateUnguarded(Dp, trades) ==
    IF trades.some
    THEN LET closed == ClosePnL(trades.v)
         IN  Mul(Div(Z(CountIf(closed, Positive)), Z(Len(closed))), Z(100))
    ELSE Mul(Div(Z(CountIf(Dp, GtZero)), Z(Len(Dp))), Z(100))

\* win rate and profit/loss ratio of task3/risk.py: per closing trade, or per
\* day when no trade data is given
RiskWinRate(Dp, trades) ==
    IF trades.some
    THEN LET closed == ClosePnL(trades.v)
         IN  IF Len(closed) > 0
             THEN Mul(Q(CountIf(closed, Positive), Len(closed)), Z(100))
             ELSE Zero
    ELSE IF Len(Dp) > 0 THEN Mul(Q(CountIf(Dp, GtZero), Len(Dp)), Z(100)) ELSE Zero

RiskProfitLossRatio(Dp, trades) ==
    IF trades.some
    THEN LET closed       == ClosePnL(trades.v)
             total_profit == SumInt(SelectSeq(closed, Positive))
             total_loss   == Abs(SumInt(SelectSeq(closed, Negative)))
         IN  IF Len(closed) > 0 /\ total_loss > 0 THEN Q(total_profit, total_loss) ELSE Zero
    ELSE LET winning  == CountIf(Dp, GtZero)
             avg_win  == Mean(SelectSeq(Dp, GtZero))
             avg_loss == AbsQ(Mean(SelectSeq(Dp, LtZero)))
         IN  IF winning > 0 /\ Len(Dp) - winning > 0
             THEN (IF Gt(avg_loss, Zero) THEN Div(avg_win, avg_loss) ELSE Zero)
             ELSE Zero

\* the division and the log versions of the total excess return
RiskExcessDiv(Dp, Dm) ==
    IF ~Dm.some THEN Zero
    ELSE LET sp       == PairedP(Dp, Dm.v)
             bm       == PairedM(Dp, Dm.v)
             sp_total == Sub(ProdQ(OnePlus(sp)), One)
             bm_total == Sub(ProdQ(OnePlus(bm)), One)
         IN  IF Len(sp) > 0 /\ GtEps(AbsQ(bm_total))
             THEN Mul(Sub(Div(sp_total, bm_total), One), Z(100))
             ELSE Zero

RiskLogExcess(Dp, Dm) ==
    IF ~Dm.some THEN Zero
    ELSE LET sp       == PairedP(Dp, Dm.v)
             bm       == PairedM(Dp, Dm.v)
             sp_total == Sub(ProdQ(OnePlus(sp)), One)
             bm_total == Sub(ProdQ(OnePlus(bm)), One)
         IN  IF Len(sp) > 0 /\ GtEps(AbsQ(bm_total))
             THEN LogRatio100(Add(One, sp_total), Add(One, bm_total))
             ELSE Zero

\* The keys of the result.  The keys written in Chinese in the source are
\* "Win Rate" (胜率), "Daily Win Rate" (日胜率), "Profit Loss Ratio" (盈亏比),
\* "Excess Max Drawdown" (超额收益最大回撤), "Excess Sharpe" (超额收益夏普比率),
\* "Excess Return" (超额收益) and "Log Excess Return" (对数轴上的超额收益).
RiskKeys ==
    {"Total Returns", "Total Annualized Returns", "Alpha", "Beta", "Sharpe", "Sortino",
     "Information Ratio", "Algorithm Volatility", "Benchmark Volatility", "Max Drawdown",
     "Downside Risk", "Win Rate", "Daily Win Rate", "Profit Loss Ratio", "AEI",
     "Excess Max Drawdown", "Excess Sharpe", "Excess Return", "Log Excess Return"}

calculate_risk_metrics(daily_returns, cap, pnl, benchmark, trades) ==
    LET Dp     == Finite(daily_returns)
        Pstart == Z(cap)
        Pend   == IF Len(pnl) > 0 THEN Add(Pstart, Z(CumPnL(pnl)[Len(pnl)])) ELSE Pstart
        P      == IF cap > 0 THEN Div(Sub(Pend, Pstart), Pstart) ELSE Zero
        n      == Len(pnl)
        Dm     == IF benchmark.some /\ Len(Finite(benchmark.v)) > 0
                  THEN Some(Finite(benchmark.v)) ELSE None
        Rm     == IF Dm.some
                  THEN Some(get_total_annualized_returns(
                                Sub(ProdQ(OnePlus(Dm.v)), One), Len(Dm.v)))
                  ELSE None
        sp_pct  == get_algorithm_volatility(Dp)
        sm_pct  == get_benchmark_volatility(Dm)
        spd_pct == get_downside_risk(Dp)
        sp      == IF GtZeroVal(sp_pct) THEN SqrtScale(Q(1, 100), sp_pct) ELSE Zero
        spd     == IF GtZeroVal(spd_pct) THEN SqrtScale(Q(1, 100), spd_pct) ELSE Zero
        Rp_pct  == get_total_annualized_returns(P, n)
        Rp      == LScale(Q(1, 100), Rp_pct)
        Rm_dec  == IF Rm.some THEN Some(LScale(Q(1, 100), Rm.v)) ELSE None
        beta    == get_beta(Dp, Dm)
    IN  IF Len(Dp) = 0 THEN <<>>
        ELSE
          ("Total Returns" :> get_total_returns(Pend, Pstart)) @@
          ("Total Annualized Returns" :> Rp_pct) @@
          ("Alpha" :> IF Rm_dec.some THEN get_alpha(Rp, Rm_dec, beta) ELSE Zero) @@
          ("Beta" :> beta) @@
          ("Sharpe" :> IF GtEpsVal(sp) THEN get_sharpe(Rp, sp) ELSE Zero) @@
          ("Sortino" :> IF GtEpsVal(spd) THEN get_sortino(Rp, spd) ELSE Zero) @@
          ("Information Ratio" :>
              IF Rm.some THEN get_information_ratio(Rp_pct, Rm, Dp, Dm) ELSE Zero) @@
          ("Algorithm Volatility" :> sp_pct) @@
          ("Benchmark Volatility" :> sm_pct) @@
          ("Max Drawdown" :> get_max_drawdown(Dp)) @@
          ("Downside Risk" :> spd_pct) @@
          ("Win Rate" :> RiskWinRate(Dp, trades)) @@
          ("Daily Win Rate" :> get_daily_win_rate(Dp, Dm)) @@
          ("Profit Loss Ratio" :> RiskProfitLossRatio(Dp, trades)) @@
          ("AEI" :> get_aei(Dp, Dm)) @@
          ("Excess Max Drawdown" :> get_excess_return_max_drawdown(Dp, Dm)) @@
          ("Excess Sharpe" :> get_excess_return_sharpe(Dp, Dm)) @@
          ("Excess Return" :> RiskExcessDiv(Dp, Dm)) @@
          ("Log Excess Return" :> RiskLogExcess(Dp, Dm))

(***************************************************************************)
(* Metrics Engine of task4/imrisk.py                                       *)
(***************************************************************************)
\* totals of get_benchmark_data: the benchmark's total and annualised return
\* over the aligned returns, a leading 0 excluded
ImriskValidBenchmark(Dm) ==
    LET valid == SelectSeq(Dm, LAMBDA x : ~IsNaN(x))
    IN  IF Len(valid) > 0 /\ Eq(valid[1], Zero) THEN Tail(valid) ELSE valid

ImriskBenchmarkTotal(Dm) ==
    IF ~Dm.some THEN None
    ELSE IF Len(ImriskValidBenchmark(Dm.v)) > 0
         THEN Some(Sub(ProdQ(OnePlus(ImriskValidBenchmark(Dm.v))), One))
         ELSE Some(Zero)

ImriskBenchmarkAnnualized(Dm) ==
    IF ~Dm.some THEN None
    ELSE LET valid == ImriskValidBenchmark(Dm.v)
         IN  IF Len(valid) > 0
             THEN Some(LSub(Pow(Add(One, ImriskBenchmarkTotal(Dm).v),
                                Q(TRADING_DAYS_PER_YEAR, Len(valid))), One))
             ELSE Some(Zero)

\* strategy_annualized_return of load_and_process_data (a fraction, not percent)
ImriskStrategyAnnualized(P, n) ==
    IF n > 0 THEN LSub(Pow(Add(One, P), Q(TRADING_DAYS_PER_YEAR, n)), One) ELSE Zero

imrisk_get_total_annualized_returns(P, n) ==
    IF n = 0 THEN Zero
    ELSE LScale(Z(100), LSub(Pow(Add(One, P), Q(TRADING_DAYS_PER_YEAR, n)), One))

imrisk_get_beta(Dp, Dm) ==
    IF ~Dm.some THEN Zero
    ELSE IF Len(Dp) < 2 \/ Len(Dm.v) < 2 THEN Zero
    ELSE LET p == PairedP(Dp, Dm.v)
             m == PairedM(Dp, Dm.v)
         IN  IF Len(p) < 2 THEN Zero
             ELSE IF GtEps(Var(m, 1)) THEN Div(Cov(p, m, 1), Var(m, 1)) ELSE Zero

imrisk_get_alpha(Rp, Rm, beta) ==
    IF ~Rm.some THEN Zero
    ELSE LScale(Z(100), LSub(Rp, LAdd(Rf, LScale(beta, LSub(Rm.v, Rf)))))

imrisk_get_sharpe(Rp, sigma) ==
    IF GtEpsVal(sigma) THEN Quot(LSub(Rp, Rf), sigma) ELSE Zero

imrisk_get_sortino(Rp, sigma) ==
    IF GtEpsVal(sigma) THEN Quot(LSub(Rp, Rf), sigma) ELSE Zero

imrisk_get_information_ratio(Rp, Rm, Dp, Dm) ==
    IF ~Dm.some \/ ~Rm.some THEN Zero
    ELSE IF Len(Dp) < 2 \/ Len(Dm.v) < 2 THEN Zero
    ELSE LET p       == PairedP(Dp, Dm.v)
             m       == PairedM(Dp, Dm.v)
             sigma_t == AnnualStd(Excess(p, m), 1, TRADING_DAYS_PER_YEAR, 1)
         IN  IF Len(p) < 2 THEN Zero
             ELSE IF GtEpsVal(sigma_t) THEN Quot(LSub(Rp, Rm.v), sigma_t) ELSE Zero

imrisk_get_algorithm_volatility(Dp) ==
    IF Len(Dp) < 2 THEN Zero ELSE AnnualStd(Dp, 1, TRADING_DAYS_PER_YEAR, 100)

imrisk_get_benchmark_volatility(Dm) ==
    IF ~Dm.some THEN Zero
    ELSE IF Len(Dm.v) < 2 THEN Zero
    ELSE LET Dm_valid == SelectSeq(Dm.v, LAMBDA x : ~Eq(x, Zero))
         IN  IF Len(Dm_valid) < 2 THEN Zero
             ELSE AnnualStd(Dm_valid, 1, TRADING_DAYS_PER_YEAR, 100)

\* max over the days of (running maximum - net value) / running maximum, in percent
DrawdownOfNetValue(net_value) ==
    LET running_max == RunningMax(net_value)
    IN  Mul(MaxSeq([i \in 1..Len(net_value) |->
                        Div(Sub(running_max[i], net_value[i]), running_max[i])]), Z(100))

imrisk_get_max_drawdown(Dp) ==
    IF Len(Dp) = 0 THEN Zero ELSE DrawdownOfNetValue(CumProd(OnePlus(Dp)))

imrisk_get_downside_risk(Dp) ==
    LET downside_returns == SelectSeq(Dp, LAMBDA x : Lt(x, Mean(Dp)))
    IN  IF Len(Dp) < 2 THEN Zero
        ELSE IF Len(downside_returns) < 2 THEN Zero
        ELSE AnnualStd(downside_returns, 0, TRADING_DAYS_PER_YEAR, 100)

imrisk_get_daily_win_rate(Dp, Dm) ==
    IF ~Dm.some THEN Zero
    ELSE IF Len(Dp) = 0 \/ Len(Dm.v) = 0 THEN Zero
    ELSE LET n == MinInt(Len(Dp), Len(Dm.v))
         IN  Mul(Q(Cardinality({i \in 1..n : Gt(Dp[i], Dm.v[i])}), n), Z(100))

imrisk_get_aei(Dp, Dm) ==
    IF ~Dm.some THEN Zero
    ELSE IF Len(Dp) = 0 \/ Len(Dm.v) = 0 THEN Zero
    ELSE LET n == MinInt(Len(Dp), Len(Dm.v))
         IN  Mul(Mean(DiffPrepend0(ExcessIndex(Take(Dp, n), Take(Dm.v, n)))), Z(100))

imrisk_get_excess_return_max_drawdown(Dp, Dm) ==
    IF ~Dm.some THEN Zero
    ELSE IF Len(Dp) = 0 \/ Len(Dm.v) = 0 THEN Zero
    ELSE LET n      == MinInt(Len(Dp), Len(Dm.v))
             sp_cum == CumProd(OnePlus(Take(Dp, n)))
             bm_cum == CumProd(OnePlus(Take(Dm.v, n)))
             EI_net == [i \in 1..n |-> Add(One, Sub(Div(sp_cum[i], bm_cum[i]), One))]
         IN  DrawdownOfNetValue(EI_net)

imrisk_get_excess_return_sharpe(Dp, Dm) ==
    IF ~Dm.some THEN Zero
    ELSE IF Len(Dp) < 2 \/ Len(Dm.v) < 2 THEN Zero
    ELSE LET n     == MinInt(Len(Dp), Len(Dm.v))
             I     == {i \in 1..n : ~IsInf(Dp[i]) /\ ~IsInf(Dm.v[i])}
             p     == SelectIdx(Dp, I)
             m     == SelectIdx(Dm.v, I)
             EI    == [i \in 1..Len(p) |-> Sub(Div(Add(One, p[i]), Add(One, m[i])), One)]
             valid == Finite(EI)
             RpEI  == LSub(Pow(Add(One, Sub(ProdQ(OnePlus(valid)), One)),
                               Q(TRADING_DAYS_PER_YEAR, Len(valid))), One)
             sigma == AnnualStd(valid, 1, TRADING_DAYS_PER_YEAR, 1)
         IN  IF Len(p) < 2 THEN Zero
             ELSE IF Len(valid) < 2 THEN Zero
             ELSE IF GtEpsVal(sigma) THEN Quot(LSub(RpEI, Rf), sigma) ELSE Zero

\* The keys of the result of calculate_all_metrics
ImriskKeys ==
    {"total_returns", "total_annualized_returns", "alpha", "beta", "sharpe_ratio",
     "sortino_ratio", "information_ratio", "strategy_volatility", "benchmark_volatility",
     "max_drawdown", "downside_risk", "win_rate", "daily_win_rate", "profit_loss_ratio",
     "aei", "excess_max_drawdown", "excess_sharpe_ratio", "excess_return", "win_trades",
     "loss_trades"}

\* calculate_all_metrics(data), data as load_and_process_data assembles it from
\* the daily returns, the capital, the daily P&L, the benchmark and the trades
calculate_all_metrics(Dp, cap, pnl, Dm, trades) ==
    LET Pstart == Z(cap)
        Pend   == IF Len(pnl) > 0 THEN Add(Pstart, Z(CumPnL(pnl)[Len(pnl)])) ELSE Pstart
        P      == IF cap > 0 THEN Div(Sub(Pend, Pstart), Pstart) ELSE Zero
        n      == Len(pnl)
        Rp     == ImriskStrategyAnnualized(P, n)
        Rm     == ImriskBenchmarkAnnualized(Dm)
        bm_total == ImriskBenchmarkTotal(Dm)
        closed == ClosePnL(trades.v)
        win_trades   == CountIf(closed, Positive)
        loss_trades  == CountIf(closed, NonPositive)
        total_profit == SumInt(SelectSeq(closed, Positive))
        total_loss   == Abs(SumInt(SelectSeq(closed, Negative)))
        sp     == SqrtScale(Q(1, 100), imrisk_get_algorithm_volatility(Dp))
        spd    == SqrtScale(Q(1, 100), imrisk_get_downside_risk(Dp))
        beta   == imrisk_get_beta(Dp, Dm)
        excess_return ==
            IF ~bm_total.some THEN Zero
            ELSE IF GtEps(AbsQ(Add(One, bm_total.v)))
                 THEN Mul(Sub(Div(Add(One, P), Add(One, bm_total.v)), One), Z(100))
                 ELSE Mul(Sub(P, bm_total.v), Z(100))
    IN  ("total_returns" :> get_total_returns(Pend, Pstart)) @@
        ("total_annualized_returns" :> imrisk_get_total_annualized_returns(P, n)) @@
        ("alpha" :> imrisk_get_alpha(Rp, Rm, beta)) @@
        ("beta" :> beta) @@
        ("sharpe_ratio" :> imrisk_get_sharpe(Rp, sp)) @@
        ("sortino_ratio" :> imrisk_get_sortino(Rp, spd)) @@
        ("information_ratio" :> imrisk_get_information_ratio(Rp, Rm, Dp, Dm)) @@
        ("strategy_volatility" :> imrisk_get_algorithm_volatility(Dp)) @@
        ("benchmark_volatility" :> imrisk_get_benchmark_volatility(Dm)) @@
        ("max_drawdown" :> imrisk_get_max_drawdown(Dp)) @@
        ("downside_risk" :> imrisk_get_downside_risk(Dp)) @@
        ("win_rate" :> get_win_rate(win_trades, loss_trades)) @@
        ("daily_win_rate" :> imrisk_get_daily_win_rate(Dp, Dm)) @@
        ("profit_loss_ratio" :> get_profit_loss_ratio(total_profit, total_loss)) @@
        ("aei" :> imrisk_get_aei(Dp, Dm)) @@
        ("excess_max_drawdown" :> imrisk_get_excess_return_max_drawdown(Dp, Dm)) @@
        ("excess_sharpe_ratio" :> imrisk_get_excess_return_sharpe(Dp, Dm)) @@
        ("excess_return" :> excess_return) @@
        ("win_trades" :> Z(win_trades)) @@
        ("loss_trades" :> Z(loss_trades))

(***************************************************************************)
(* Metrics Engine of task3/risk3.py                                        *)
(***************************************************************************)
\* the keys of the result; "Benchmark Return" is 基准收益
Risk3Keys == RiskKeys \cup {"Benchmark Return"}

\* (dates.max() - dates.min()).days
DateRange(dates) == IF Len(dates) = 0 THEN 0 ELSE MaxOf(Range(dates)) - MinOf(Range(dates))

risk3_annualized_returns(dr, total_returns, dates) ==
    LET years == IF DateRange(dates) > 0
                 THEN Div(Z(DateRange(dates)), RISK3_YEAR_DAYS)
                 ELSE Q(Len(dr), RISK3_TRADING_DAYS)
    IN  IF Len(dr) > 0 /\ Gt(years, Zero)
        THEN LScale(Z(100), LSub(Pow(Add(One, Div(total_returns, Z(100))),
                                     Div(One, years)), One))
        ELSE Zero

risk3_sharpe(annualized, sigma) ==
    IF GtZeroVal(sigma) THEN Quot(LSub(annualized, Mul(Rf, Z(100))), sigma) ELSE Zero

risk3_downside_risk(dr) ==
    LET downside_returns == SelectSeq(dr, LtZero)
    IN  IF Len(downside_returns) > 1
        THEN AnnualStd(downside_returns, 0, RISK3_TRADING_DAYS, 100)
        ELSE Zero

risk3_sortino(dr, annualized) ==
    IF Len(SelectSeq(dr, LtZero)) > 1 /\ GtZeroVal(risk3_downside_risk(dr))
    THEN Quot(LSub(annualized, Mul(Rf, Z(100))), risk3_downside_risk(dr))
    ELSE Zero

risk3_max_drawdown(dr) ==
    IF Len(dr) > 0
    THEN DrawdownOfCum([i \in 1..Len(dr) |-> Sub(CumProd(OnePlus(dr))[i], One)])
    ELSE Zero

\* benchmark_returns is not None and len(benchmark_returns) > 0
Risk3HasBenchmark(benchmark) == benchmark.some /\ Len(benchmark.v) > 0

risk3_beta(dr, benchmark) ==
    IF ~Risk3HasBenchmark(benchmark) THEN Zero
    ELSE LET p == PairedP(dr, benchmark.v)
             m == PairedM(dr, benchmark.v)
         IN  IF Len(p) > 1 /\ GtEps(Var(m, 0)) THEN Div(Cov(p, m, 1), Var(m, 0)) ELSE Zero

risk3_alpha(dr, benchmark) ==
    IF ~Risk3HasBenchmark(benchmark) THEN Zero
    ELSE LET p == PairedP(dr, benchmark.v)
             m == PairedM(dr, benchmark.v)
             risk_free_daily == Div(Rf, Z(RISK3_TRADING_DAYS))
             alpha_daily == Sub(Sub(Mean(p), risk_free_daily),
                                Mul(risk3_beta(dr, benchmark), Sub(Mean(m), risk_free_daily)))
         IN  IF Len(p) > 1 /\ GtEps(Var(m, 0))
             THEN Mul(Mul(alpha_daily, Z(RISK3_TRADING_DAYS)), Z(100))
             ELSE Zero

\* excess_mean * 252 * 100 / (std(excess, ddof=0) * sqrt(252) * 100)
Risk3ExcessRatio(dr, benchmark) ==
    IF ~Risk3HasBenchmark(benchmark) THEN Zero
    ELSE LET excess == Excess(PairedP(dr, benchmark.v), PairedM(dr, benchmark.v))
             sigma  == AnnualStd(excess, 0, RISK3_TRADING_DAYS, 100)
         IN  IF Len(excess) > 1 /\ GtEpsVal(sigma)
             THEN Quot(Mul(Mul(Mean(excess), Z(RISK3_TRADING_DAYS)), Z(100)), sigma)
             ELSE Zero

risk3_daily_win_rate(dr, pnl, benchmark) ==
    LET p == PairedP(dr, benchmark.v)
        m == PairedM(dr, benchmark.v)
    IN  IF Risk3HasBenchmark(benchmark) /\ Len(p) > 0
        THEN Mul(Q(Cardinality({i \in 1..Len(p) : Gt(p[i], m[i])}), Len(p)), Z(100))
        ELSE IF Len(pnl) > 0 THEN Mul(Q(CountIf(pnl, Positive), Len(pnl)), Z(100))
        ELSE Zero

risk3_aei(dr, benchmark) ==
    IF ~Risk3HasBenchmark(benchmark) THEN Zero
    ELSE LET excess == Excess(PairedP(dr, benchmark.v), PairedM(dr, benchmark.v))
         IN  IF Len(excess) > 0 THEN Mul(Mean(excess), Z(100)) ELSE Zero

risk3_excess_max_drawdown(dr, benchmark) ==
    IF ~Risk3HasBenchmark(benchmark) THEN Zero
    ELSE LET excess == Excess(PairedP(dr, benchmark.v), PairedM(dr, benchmark.v))
         IN  IF Len(excess) > 0
             THEN DrawdownOfCum([i \in 1..Len(excess) |->
                                    Sub(CumProd(OnePlus(excess))[i], One)])
             ELSE Zero

risk3_benchmark_return(dr, benchmark) ==
    IF ~Risk3HasBenchmark(benchmark) THEN Zero
    ELSE LET m == PairedM(dr, benchmark.v)
         IN  IF Len(m) > 0 THEN Mul(Sub(ProdQ(OnePlus(m)), One), Z(100)) ELSE Zero

risk3_excess_return(dr, benchmark) ==
    IF ~Risk3HasBenchmark(benchmark) THEN Zero
    ELSE LET strategy_total  == Sub(ProdQ(OnePlus(PairedP(dr, benchmark.v))), One)
             benchmark_total == Sub(ProdQ(OnePlus(PairedM(dr, benchmark.v))), One)
         IN  IF Len(PairedP(dr, benchmark.v)) > 0 /\ GtEps(AbsQ(benchmark_total))
             THEN Mul(Sub(Div(strategy_total, benchmark_total), One), Z(100))
             ELSE Zero

risk3_log_excess(dr, benchmark) ==
    IF ~Risk3HasBenchmark(benchmark) THEN Zero
    ELSE LET p == PairedP(dr, benchmark.v)
             m == PairedM(dr, benchmark.v)
         IN  IF Len(p) > 0 THEN LogRatio100(ProdQ(OnePlus(p)), ProdQ(OnePlus(m))) ELSE Zero

risk3_calculate_risk_metrics(daily_returns, total_returns, pnl, dates, benchmark) ==
    LET dr         == SelectSeq(daily_returns, LAMBDA x : ~IsNaN(x))
        annualized == risk3_annualized_returns(dr, total_returns, dates)
        volatility == IF Len(dr) > 1 THEN AnnualStd(dr, 0, RISK3_TRADING_DAYS, 100) ELSE Zero
        winning    == CountIf(dr, GtZero)
    IN  IF Len(dr) = 0 THEN <<>>
        ELSE
          ("Total Returns" :> total_returns) @@
          ("Total Annualized Returns" :> annualized) @@
          ("Algorithm Volatility" :> volatility) @@
          ("Benchmark Volatility" :>
              IF benchmark.some /\ Len(benchmark.v) > 1
              THEN AnnualStd(benchmark.v, 0, RISK3_TRADING_DAYS, 100) ELSE Zero) @@
          ("Sharpe" :> risk3_sharpe(annualized, volatility)) @@
          ("Downside Risk" :> risk3_downside_risk(dr)) @@
          ("Sortino" :> risk3_sortino(dr, annualized)) @@
          ("Max Drawdown" :> risk3_max_drawdown(dr)) @@
          ("Beta" :> risk3_beta(dr, benchmark)) @@
          ("Alpha" :> risk3_alpha(dr, benchmark)) @@
          ("Information Ratio" :> Risk3ExcessRatio(dr, benchmark)) @@
          ("Win Rate" :> Mul(Q(winning, Len(dr)), Z(100))) @@
          ("Daily Win Rate" :> risk3_daily_win_rate(dr, pnl, benchmark)) @@
          ("Profit Loss Ratio" :>
              IF winning > 0 /\ Len(dr) - winning > 0
              THEN (IF Gt(AbsQ(Mean(SelectSeq(dr, LtZero))), Zero)
                    THEN Div(Mean(SelectSeq(dr, GtZero)), AbsQ(Mean(SelectSeq(dr, LtZero))))
                    ELSE Zero)
              ELSE Zero) @@
          ("AEI" :> risk3_aei(dr, benchmark)) @@
          ("Excess Max Drawdown" :> risk3_excess_max_drawdown(dr, benchmark)) @@
          ("Excess Sharpe" :> Risk3ExcessRatio(dr, benchmark)) @@
          ("Benchmark Return" :> risk3_benchmark_return(dr, benchmark)) @@
          ("Excess Return" :> risk3_excess_return(dr, benchmark)) @@
          ("Log Excess Return" :> risk3_log_excess(dr, benchmark))

(***************************************************************************)
(* Benchmark analysis of task4/deep.py                                     *)
(***************************************************************************)
INITIAL_CAPITAL == 1000000
DEEP_TRADING_DAYS == 252

\* Series.expanding(min_periods=1).max() and Series.min(): NaN is skipped
ExpandingMax(s) ==
    [i \in 1..Len(s) |->
        LET seen == SelectSeq(SubSeq(s, 1, i), LAMBDA x : ~IsNaN(x))
        IN  IF Len(seen) = 0 THEN NaN ELSE MaxSeq(seen)]

MinSkipNa(s) ==
    LET seen == SelectSeq(s, LAMBDA x : ~IsNaN(x))
    IN  IF Len(seen) = 0 THEN NaN ELSE MinSeq(seen)

\* df_clean['净值'] = INITIAL_CAPITAL * (1 + cumulative return)
DeepNetValues(dr) ==
    [i \in 1..Len(dr) |->
        Mul(Z(INITIAL_CAPITAL), Add(One, Sub(CumProd(OnePlus(dr))[i], One)))]

calculate_total_return(net_values) ==
    IF Len(net_values) = 0 THEN Zero
    ELSE Div(Sub(net_values[Len(net_values)], Z(INITIAL_CAPITAL)), Z(INITIAL_CAPITAL))

calculate_annualized_return(total_return, trading_days) ==
    IF trading_days = 0 THEN Zero
    ELSE LSub(Pow(Add(One, total_return), Q(DEEP_TRADING_DAYS, trading_days)), One)

calculate_volatility(dr) ==
    IF Len(dr) < 2 THEN Zero ELSE AnnualStd(dr, 1, DEEP_TRADING_DAYS, 1)

calculate_max_drawdown(net_values) ==
    IF Len(net_values) = 0 THEN Zero
    ELSE LET peak == ExpandingMax(net_values)
         IN  MinSkipNa([i \in 1..Len(net_values) |->
                           Div(Sub(net_values[i], peak[i]), peak[i])])

calculate_sharpe(annualized_return, annual_vol) ==
    IF annual_vol = Zero THEN Zero ELSE Quot(LSub(annualized_return, Rf), annual_vol)

DeepKeys == {"total_return", "annualized_return", "annual_vol", "max_drawdown", "sharpe"}

\* main of deep.py, from the daily returns of the index on
DeepMetrics(daily_returns) ==
    LET dr         == SelectSeq(daily_returns, LAMBDA x : ~IsNaN(x))
        net_values == DeepNetValues(dr)
        total      == calculate_total_return(net_values)
        annualized == calculate_annualized_return(total, Len(dr))
        annual_vol == calculate_volatility(dr)
    IN  IF Len(dr) = 0 THEN <<>>
        ELSE ("total_return" :> total) @@
             ("annualized_return" :> annualized) @@
             ("annual_vol" :> annual_vol) @@
             ("max_drawdown" :> calculate_max_drawdown(net_values)) @@
             ("sharpe" :> calculate_sharpe(annualized, annual_vol))

(***************************************************************************)
(* The Metrics Engine as a state machine: one call per behaviour           *)
(***************************************************************************)
\* the daily P&L that yields the finite returns r on the capital cap (no P&L
\* on a day without a return)
PnLFor(cap, r) ==
    [i \in 1..Len(r) |->
        IF IsFin(r[i])
        THEN Mul(Mul(Z(cap), ProdQ(OnePlus(Finite(SubSeq(r, 1, i - 1))))), r[i]).n
        ELSE 0]

\* no benchmark, the strategy's own returns, or a benchmark of at most as many
\* days as the strategy
BenchmarkChoices(Dp) ==
    {None, Some(Dp)} \cup {Some(s) : s \in SeqUpTo(BenchVals, Len(Dp))}

SomeTrades ==
    Some(<<[type |-> "open", pnl |-> 0], [type |-> "close", pnl |-> 300],
           [type |-> "close", pnl |-> -100], [type |-> "close", pnl |-> 0]>>)

OpenOnly == Some(<<[type |-> "open", pnl |-> 0]>>)

TradeChoices(m) ==
    IF m = "risk" THEN {None, OpenOnly, SomeTrades}
    ELSE IF m = "imrisk" THEN {Some(<<>>), SomeTrades}
    ELSE {None}

MetricsModules == {"risk", "imrisk", "risk3", "deep"}

MetricsInit ==
    /\ module \in MetricsModules
    /\ pc = "start"
    /\ initial_capital = DEFAULT_CAPITAL
    /\ daily_ret \in SeqUpTo(RetVals, MaxDays)
    /\ daily_pnl = PnLFor(initial_capital, daily_ret)
    /\ trade_dates = [i \in 1..Len(daily_ret) |-> i]
    /\ benchmark_df = [kind |-> "error", dates |-> {}, closes |-> <<>>]
    /\ benchmark_returns \in (IF module = "deep" THEN {None} ELSE BenchmarkChoices(daily_ret))
    /\ trade_df \in TradeChoices(module)
    /\ metrics = None

\* main: when the benchmark and the daily returns differ in length, both and
\* the daily P&L are cut to the shorter length
MinLen(benchmark, s) ==
    IF benchmark.some /\ Len(benchmark.v) # Len(s)
    THEN MinInt(Len(benchmark.v), Len(s)) ELSE Len(s)

AlignedBenchmark(benchmark, s) ==
    IF benchmark.some THEN Some(Take(benchmark.v, MinLen(benchmark, s))) ELSE benchmark

\* main of task3/risk.py from the daily returns on
RiskMain(Dp, cap, pnl, benchmark, trades) ==
    calculate_risk_metrics(Take(Dp, MinLen(benchmark, Dp)), cap,
                           Take(pnl, MinLen(benchmark, Dp)),
                           AlignedBenchmark(benchmark, Dp), trades)

CalcRisk ==
    /\ module = "risk"
    /\ pc = "start"
    /\ metrics' = Some(RiskMain(daily_ret, initial_capital, daily_pnl,
                                benchmark_returns, trade_df))
    /\ pc' = "done"
    /\ UNCHANGED <<module, builderVars, alignerVars, trade_df>>

CalcImrisk ==
    /\ module = "imrisk"
    /\ pc = "start"
    /\ metrics' = Some(calculate_all_metrics(daily_ret, initial_capital, daily_pnl,
                                             benchmark_returns, trade_df))
    /\ pc' = "done"
    /\ UNCHANGED <<module, builderVars, alignerVars, trade_df>>

\* total_returns_pct of main: the final cumulative P&L over the capital, in percent
Risk3TotalReturnsPct(cap, pnl) ==
    IF Len(pnl) > 0 THEN Mul(Div(Z(CumPnL(pnl)[Len(pnl)]), Z(cap)), Z(100)) ELSE Zero

\* main of task3/risk3.py from the daily returns on
Risk3Main(Dp, cap, pnl, dates, benchmark) ==
    risk3_calculate_risk_metrics(Take(Dp, MinLen(benchmark, Dp)),
                                 Risk3TotalReturnsPct(cap, pnl),
                                 Take(pnl, MinLen(benchmark, Dp)),
                                 Take(dates, MinLen(benchmark, Dp)),
                                 AlignedBenchmark(benchmark, Dp))

CalcRisk3 ==
    /\ module = "risk3"
    /\ pc = "start"
    /\ metrics' = Some(Risk3Main(daily_ret, initial_capital, daily_pnl, trade_dates,
                                 benchmark_returns))
    /\ pc' = "done"
    /\ UNCHANGED <<module, builderVars, alignerVars, trade_df>>

CalcDeep ==
    /\ module = "deep"
    /\ pc = "start"
    /\ metrics' = Some(DeepMetrics(daily_ret))
    /\ pc' = "done"
    /\ UNCHANGED <<module, builderVars, alignerVars, trade_df>>

MetricsNext == CalcRisk \/ CalcImrisk \/ CalcRisk3 \/ CalcDeep

SpecMetrics == MetricsInit /\ [][MetricsNext]_vars

(***************************************************************************)
(* Claims about the Metrics Engine                                         *)
(***************************************************************************)
Done == pc = "done"

Computed == Done /\ metrics.some /\ DOMAIN metrics.v # {}

KeysOf(m) ==
    CASE m = "risk"   -> RiskKeys
      [] m = "imrisk" -> ImriskKeys
      [] m = "risk3"  -> Risk3Keys
      [] OTHER        -> DeepKeys

BenchmarkKeys(m) ==
    IF m = "imrisk"
    THEN {"beta", "alpha", "information_ratio", "daily_win_rate", "aei",
          "excess_max_drawdown", "excess_sharpe_ratio", "excess_return"}
    ELSE {"Beta", "Alpha", "Information Ratio", "Daily Win Rate", "AEI",
          "Excess Max Drawdown", "Excess Sharpe", "Excess Return"}

BetaKey == IF module = "imrisk" THEN "beta" ELSE "Beta"
AlphaKey == IF module = "imrisk" THEN "alpha" ELSE "Alpha"
DrawdownKey == IF module \in {"imrisk", "deep"} THEN "max_drawdown" ELSE "Max Drawdown"

\* Dp = Dm, every value known, at least two of them and not all equal
SameNonConstant ==
    /\ module \in {"risk", "imrisk", "risk3"}
    /\ benchmark_returns = Some(daily_ret)
    /\ Len(daily_ret) >= 2
    /\ \A i \in 1..Len(daily_ret) : IsFin(daily_ret[i])
    /\ \E i, j \in 1..Len(daily_ret) : daily_ret[i] # daily_ret[j]

\* the equity curve: 1 before the first day, then the compounded returns
EquityCurve == <<One>> \o CumProd(OnePlus(daily_ret))

AllKnown == Len(daily_ret) > 0 /\ \A i \in 1..Len(daily_ret) : IsFin(daily_ret[i])

NonDecreasing(s) == \A i \in 1..(Len(s) - 1) : Le(s[i], s[i + 1])

\* C1: whatever the input, the empty and the NaN-only return series included,
\* calculate_risk_metrics of risk.py and calculate_all_metrics of imrisk.py
\* return a mapping that holds every metric key
C1_FullyPopulated ==
    (Done /\ module \in {"risk", "imrisk"}) => DOMAIN metrics.v = KeysOf(module)

\* C2: without a benchmark (Dm is None) every benchmark-dependent metric that
\* is returned (Beta, Alpha, Information Ratio, Daily Win Rate, AEI, excess max
\* drawdown, excess Sharpe, excess return) is 0
C2_ZeroWithoutBenchmark ==
    (Done /\ module \in {"risk", "imrisk", "risk3"} /\ benchmark_returns = None) =>
        \A k \in BenchmarkKeys(module) \cap DOMAIN metrics.v : metrics.v[k] = Zero

\* C8: when the strategy's returns are the benchmark's and are not constant,
\* Beta is 1
C8_BetaOneOnBenchmark ==
    (Computed /\ SameNonConstant) => metrics.v[BetaKey] = One

\* C9: when the strategy's returns are the benchmark's, Alpha is 0
C9_AlphaZeroOnBenchmark ==
    (Computed /\ SameNonConstant) => IsZeroVal(metrics.v[AlphaKey])

\* C10: Max Drawdown has one sign per implementation (a loss, <= 0, in risk.py,
\* risk3.py and deep.py; a magnitude, >= 0, in imrisk.py) and is exactly 0
\* whenever the equity curve never falls
C10_DrawdownSignAndZero ==
    (Computed /\ AllKnown) =>
        /\ IF module = "imrisk"
           THEN Ge(metrics.v[DrawdownKey], Zero)
           ELSE Le(metrics.v[DrawdownKey], Zero)
        /\ NonDecreasing(EquityCurve) => metrics.v[DrawdownKey] = Zero

\* NAV = cumprod(1 + Dp)
NAV == CumProd(OnePlus(daily_ret))

\* the largest loss (NAV[i] - NAV[j]) / NAV[i] over the pairs i < j, 0 when no
\* pair loses
PeakToTroughLoss ==
    LET losses == {Div(Sub(NAV[p[1]], NAV[p[2]]), NAV[p[1]]) :
                      p \in {q \in (1..Len(NAV)) \X (1..Len(NAV)) : q[1] < q[2]}}
    IN  IF losses = {} THEN Zero
        ELSE MaxQ(Zero, CHOOSE x \in losses : \A y \in losses : Ge(x, y))

NAVPositive == \A i \in 1..Len(NAV) : Gt(NAV[i], Zero)

\* C11: get_max_drawdown of risk.py and imrisk.py returns, as a positive
\* percentage, the largest loss relative to the earlier NAV,
\* max over i < j of (NAV[i] - NAV[j]) / NAV[i]
C11_DrawdownRelativeToPeak ==
    (Computed /\ AllKnown /\ NAVPositive /\ module \in {"risk", "imrisk"}) =>
        metrics.v[DrawdownKey] = Mul(PeakToTroughLoss, Z(100))

\* v is a number: neither NaN nor an infinity
RECURSIVE IsNumber(_)
IsNumber(v) ==
    IF IsRat(v) THEN IsFin(v)
    ELSE IF IsLin(v) THEN IsFin(v.c) /\ \A m \in v.t : IsFin(m.coef)
    ELSE IF v.k = "sqrt" THEN IsFin(v.r)
    ELSE IF v.k = "quot" THEN IsNumber(v.num) /\ IsNumber(v.den) /\ ~IsZeroVal(v.den)
    ELSE TRUE

\* v is a number of absolute value at most 1e-10
NearZero(v) == IsNumber(v) /\ IsRat(v) /\ ~GtEps(AbsQ(v))

SharpeKey == IF module = "imrisk" THEN "sharpe_ratio" ELSE "Sharpe"
SortinoKey == IF module = "imrisk" THEN "sortino_ratio" ELSE "Sortino"
InformationRatioKey == IF module = "imrisk" THEN "information_ratio" ELSE "Information Ratio"
VolatilityKey == IF module = "imrisk" THEN "strategy_volatility" ELSE "Algorithm Volatility"
DownsideRiskKey == IF module = "imrisk" THEN "downside_risk" ELSE "Downside Risk"

\* every Dp and Dm value is known and Dp - Dm is the same on every day: the
\* tracking error is 0
NoTrackingError ==
    /\ AllKnown
    /\ benchmark_returns.some
    /\ Len(benchmark_returns.v) = Len(daily_ret)
    /\ \A i \in 1..Len(daily_ret) : IsFin(benchmark_returns.v[i])
    /\ \A i, j \in 1..Len(daily_ret) :
          Sub(daily_ret[i], benchmark_returns.v[i]) = Sub(daily_ret[j], benchmark_returns.v[j])

\* C12: Sharpe, Sortino and Information Ratio are 0 whenever their volatility
\* denominator (strategy volatility, downside risk, tracking error) is about 0,
\* and none of the three is ever NaN or an infinity
C12_RatiosGuarded ==
    (Computed /\ module \in {"risk", "imrisk", "risk3"}) =>
        /\ IsNumber(metrics.v[SharpeKey])
        /\ IsNumber(metrics.v[SortinoKey])
        /\ IsNumber(metrics.v[InformationRatioKey])
        /\ NearZero(metrics.v[VolatilityKey]) => metrics.v[SharpeKey] = Zero
        /\ NearZero(metrics.v[DownsideRiskKey]) => metrics.v[SortinoKey] = Zero
        /\ NoTrackingError => metrics.v[InformationRatioKey] = Zero

RatioKeys(m) ==
    IF m = "imrisk"
    THEN {"total_returns", "profit_loss_ratio", "max_drawdown", "aei",
          "excess_max_drawdown", "excess_sharpe_ratio"}
    ELSE {"Total Returns", "Profit Loss Ratio", "Max Drawdown", "AEI",
          "Excess Max Drawdown", "Excess Sharpe"}

\* C13: no ratio metric (Total Return, Profit/Loss Ratio, Max Drawdown, Excess
\* Index, excess max drawdown, excess Sharpe) is ever NaN or an infinity: a
\* division by a denominator below 1e-10 yields 0
C13_DivisionsGuarded ==
    (Computed /\ module \in {"risk", "imrisk"}) =>
        \A k \in RatioKeys(module) : IsNumber(metrics.v[k])

BenchmarkVolatilityKey ==
    IF module = "imrisk" THEN "benchmark_volatility" ELSE "Benchmark Volatility"
ExcessSharpeKey == IF module = "imrisk" THEN "excess_sharpe_ratio" ELSE "Excess Sharpe"

\* the finite observations of the strategy and of the benchmark
FiniteDp == Finite(daily_ret)
FiniteDm == IF benchmark_returns.some THEN Finite(benchmark_returns.v) ELSE <<>>

FewPairs == Len(FiniteDp) < 2 \/ Len(FiniteDm) < 2

\* C14: every aggregate statistic is computed over the finite observations
\* only (the strategy volatility is the annualised sample deviation of the
\* finite returns), and the dependent metric is 0 when fewer than 2 finite
\* observations remain
C14_FiniteObservationsOnly ==
    (Computed /\ module \in {"risk", "imrisk"}) =>
        /\ metrics.v[VolatilityKey] =
              (IF Len(FiniteDp) < 2 THEN Zero
               ELSE AnnualStd(FiniteDp, 1, TRADING_DAYS_PER_YEAR, 100))
        /\ Len(FiniteDp) < 2 => metrics.v[DownsideRiskKey] = Zero
        /\ Len(FiniteDm) < 2 => metrics.v[BenchmarkVolatilityKey] = Zero
        /\ FewPairs => /\ metrics.v[BetaKey] = Zero
                       /\ metrics.v[InformationRatioKey] = Zero
                       /\ metrics.v[ExcessSharpeKey] = Zero

(***************************************************************************)
(* Ledger Normalizer: preprocess_data of task3/risk.py and the             *)
(* preprocessing step of load_and_process_data of task4/imrisk.py          *)
(*                                                                         *)
(* A text field is the sequence of its characters; "u" stands for the      *)
(* unit suffix of the quantity column and "x" for any other character.     *)
(***************************************************************************)
MaxRows == 3

Digits == <<"0", "1", "2", "3", "4", "5", "6", "7", "8", "9">>

IsDigit(c) == \E i \in 1..10 : Digits[i] = c

DigitVal(c) == (CHOOSE i \in 1..10 : Digits[i] = c) - 1

\* str.replace(c, '')
StrReplace(txt, c) == SelectSeq(txt, LAMBDA x : x # c)

IsDigits(txt) == Len(txt) > 0 /\ \A i \in 1..Len(txt) : IsDigit(txt[i])

RECURSIVE ParseNat(_)
ParseNat(txt) ==
    IF Len(txt) = 0 THEN 0
    ELSE 10 * ParseNat(SubSeq(txt, 1, Len(txt) - 1)) + DigitVal(txt[Len(txt)])

\* pd.to_numeric(txt, errors='coerce')
to_numeric(txt) ==
    IF IsDigits(txt) THEN Z(ParseNat(txt))
    ELSE IF Len(txt) > 1 /\ txt[1] = "-" /\ IsDigits(Tail(txt)) THEN Z(-ParseNat(Tail(txt)))
    ELSE NaN

\* Series.replace(['-', ''], '0'): a whole value that is '-' or empty
ReplacePlaceholder(txt) == IF txt = <<"-">> \/ txt = <<>> THEN <<"0">> ELSE txt

\* fillna(0)
FillNa(v) == IF IsNaN(v) THEN Zero ELSE v

NaT == [nat |-> TRUE, day |-> 0, time |-> 0]

\* pd.to_datetime(date + ' ' + time, format=..., errors='coerce'): the date is
\* written with the separator sep of the format and the time is well formed
to_datetime(date, time, sep) ==
    IF date.sep = sep /\ time.ok THEN [nat |-> FALSE, day |-> date.day, time |-> time.t]
    ELSE NaT

\* df.sort_values('日期时间') sorts with numpy's quicksort, which keeps no
\* order among equal keys; the rows without a date-time follow in their order
KeyLe(a, b) == a.day < b.day \/ (a.day = b.day /\ a.time <= b.time)

Bijections(n) == {f \in [1..n -> 1..n] : \A i, j \in 1..n : f[i] = f[j] => i = j}

SortOutcomes(rows) ==
    LET dated   == SelectSeq(rows, LAMBDA r : ~r.dt.nat)
        undated == SelectSeq(rows, LAMBDA r : r.dt.nat)
        n       == Len(dated)
    IN  {[i \in 1..n |-> dated[f[i]]] \o undated :
            f \in {g \in Bijections(n) :
                      \A i \in 1..(n - 1) : KeyLe(dated[g[i]].dt, dated[g[i + 1]].dt)}}

\* the columns preprocess_data of risk.py writes into one row
RiskClean(r) ==
    LET pnl == FillNa(to_numeric(ReplacePlaceholder(StrReplace(r.pnl, ","))))
        fee == FillNa(to_numeric(ReplacePlaceholder(StrReplace(r.fee, ","))))
    IN  [line |-> r.line, date |-> r.date, time |-> r.time, dt |-> r.dt,
         qty    |-> to_numeric(StrReplace(r.qty, "u")),
         price  |-> to_numeric(StrReplace(r.price, ",")),
         amount |-> to_numeric(StrReplace(r.amount, ",")),
         pnl |-> pnl, fee |-> fee, net |-> Sub(pnl, fee)]

\* the columns load_and_process_data of imrisk.py writes into one row
ImriskClean(r) ==
    LET pnl == FillNa(to_numeric(r.pnl))
        fee == FillNa(to_numeric(r.fee))
    IN  [line |-> r.line, date |-> r.date, time |-> r.time, dt |-> r.dt,
         qty    |-> to_numeric(StrReplace(r.qty, "u")),
         price  |-> to_numeric(r.price),
         amount |-> to_numeric(r.amount),
         pnl |-> pnl, fee |-> fee, net |-> Sub(pnl, fee)]

WithDateTime(rows, sep) ==
    [i \in 1..Len(rows) |->
        [line |-> rows[i].line, date |-> rows[i].date, time |-> rows[i].time,
         dt |-> to_datetime(rows[i].date, rows[i].time, sep),
         qty |-> rows[i].qty, price |-> rows[i].price, amount |-> rows[i].amount,
         pnl |-> rows[i].pnl, fee |-> rows[i].fee]]

\* the frames preprocess_data(df) can return
preprocess_data(df) ==
    {[i \in 1..Len(sorted) |-> RiskClean(sorted[i])] :
        sorted \in SortOutcomes(WithDateTime(df, "/"))}

ImriskPreprocessed(df) ==
    {[i \in 1..Len(sorted) |-> ImriskClean(sorted[i])] :
        sorted \in SortOutcomes(WithDateTime(df, "-"))}

\* rows of the ledger file: a well-formed trade; one filled later the same day
\* with a thousands separator in its P&L; and trades whose quantity, price or
\* time cannot be parsed
RowKinds == {"good", "late", "badqty", "badprice", "badtime"}

RawRow(sep, day, kind) ==
    [date   |-> [sep |-> sep, day |-> day],
     time   |-> [ok |-> kind # "badtime", t |-> IF kind = "late" THEN 2 ELSE 1],
     qty    |-> IF kind = "badqty" THEN <<"x", "u">> ELSE <<"2", "u">>,
     price  |-> IF kind = "badprice" THEN <<"x">> ELSE <<"1", "5">>,
     amount |-> <<"3", "0">>,
     pnl    |-> CASE kind = "good" -> <<"-">>
                  [] kind = "late" -> <<"1", ",", "2", "0", "0">>
                  [] OTHER         -> <<"-", "5", "0">>,
     fee    |-> <<"4">>]

RawRows == {RawRow(sep, day, kind) : sep \in {"/", "-"}, day \in 1..2, kind \in RowKinds}

\* pd.read_csv: the rows in file order, line the number of the record
Ledgers ==
    {[i \in 1..Len(rows) |->
        [line |-> i, date |-> rows[i].date, time |-> rows[i].time, qty |-> rows[i].qty,
         price |-> rows[i].price, amount |-> rows[i].amount, pnl |-> rows[i].pnl,
         fee |-> rows[i].fee]] : rows \in SeqUpTo(RawRows, MaxRows)}

NormalizerModules == {"risk", "imrisk"}

NormalizerInit ==
    /\ module \in NormalizerModules
    /\ pc = "loaded"
    /\ trade_df \in {Some(df) : df \in Ledgers}
    /\ metrics = None
    /\ BuilderIdle
    /\ AlignerIdle

RiskPreprocess ==
    /\ module = "risk"
    /\ pc = "loaded"
    /\ \E df \in preprocess_data(trade_df.v) : trade_df' = Some(df)
    /\ pc' = "normalized"
    /\ UNCHANGED <<module, builderVars, alignerVars, metrics>>

ImriskPreprocess ==
    /\ module = "imrisk"
    /\ pc = "loaded"
    /\ \E df \in ImriskPreprocessed(trade_df.v) : trade_df' = Some(df)
    /\ pc' = "normalized"
    /\ UNCHANGED <<module, builderVars, alignerVars, metrics>>

NormalizerNext == RiskPreprocess \/ ImriskPreprocess

SpecNormalizer == NormalizerInit /\ [][NormalizerNext]_vars

(***************************************************************************)
(* Claims about the Ledger Normalizer                                      *)
(***************************************************************************)
Normalized == pc = "normalized"

Rejectable(r) == r.dt.nat \/ IsNaN(r.qty) \/ IsNaN(r.price)

\* C15: a trade row whose date, quantity or price cannot be parsed is
\* rejected: it is not in the normalized output with a missing value
C15_UnparseableRowsRejected ==
    Normalized => \A i \in 1..Len(trade_df.v) : ~Rejectable(trade_df.v[i])

\* C16: the output is ordered by (date, time) ascending, and two trades with
\* the same (date, time) keep the order they had in the file
C16_StableDateTimeOrder ==
    Normalized =>
        \A i, j \in 1..Len(trade_df.v) :
            (i < j /\ ~trade_df.v[i].dt.nat /\ ~trade_df.v[j].dt.nat) =>
                /\ KeyLe(trade_df.v[i].dt, trade_df.v[j].dt)
                /\ trade_df.v[i].dt = trade_df.v[j].dt =>
                      trade_df.v[i].line < trade_df.v[j].line

(***************************************************************************)
(* Claims about the win rates                                              *)
(***************************************************************************)
WinRateKey == IF module = "imrisk" THEN "win_rate" ELSE "Win Rate"
DailyWinRateKey == IF module = "imrisk" THEN "daily_win_rate" ELSE "Daily Win Rate"

Within(v, lo, hi) == Ge(v, Z(lo)) /\ Le(v, Z(hi))

\* trade data is given and holds no closing trade
NoClosingTrade == trade_df.some /\ Len(ClosePnL(trade_df.v)) = 0

HasRates == Computed /\ module \in {"risk", "imrisk", "risk3"}

ClosingTradeWinRate ==
    LET closed == IF trade_df.some THEN ClosePnL(trade_df.v) ELSE <<>>
    IN  IF Len(closed) = 0 THEN Zero
        ELSE Mul(Div(Z(CountIf(closed, Positive)), Z(Len(closed))), Z(100))

\* C18: Win Rate is winningTrades / totalTrades, both counted over the closing
\* trades; it is never computed from the number of profitable days
C18_WinRatePerClosingTrade ==
    HasRates => metrics.v[WinRateKey] = ClosingTradeWinRate

(***************************************************************************)
(* Claims about the independence from the benchmark                        *)
(***************************************************************************)
IndependentKeys ==
    {"Total Returns", "Total Annualized Returns", "Algorithm Volatility", "Sharpe",
     "Max Drawdown", "Win Rate", "Profit Loss Ratio"}

\* the metrics of the same ledger without a benchmark
WithoutBenchmark ==
    IF module = "risk"
    THEN RiskMain(daily_ret, initial_capital, daily_pnl, None, trade_df)
    ELSE Risk3Main(daily_ret, initial_capital, daily_pnl, trade_dates, None)

\* C19: Total Return, Annualized Return, Strategy Volatility, Sharpe, Max
\* Drawdown, Win Rate and Profit/Loss Ratio have the values they have without a
\* benchmark, whatever the benchmark's contents and length
C19_IndependentOfBenchmark ==
    (Done /\ module \in {"risk", "risk3"}) =>
        LET without == WithoutBenchmark
        IN  /\ DOMAIN metrics.v = DOMAIN without
            /\ \A k \in IndependentKeys \cap DOMAIN metrics.v : metrics.v[k] = without[k]

(***************************************************************************)
(* The identity property of the Benchmark Aligner (under SpecAligner)      *)
(***************************************************************************)
\* C20: a strategy date with an exactly matching benchmark return keeps that
\* return unchanged in the aligned series; when the benchmark calendar is the
\* strategy calendar the fill steps alter no benchmark return
C20_MatchedReturnsUnchanged ==
    (Aligned /\ benchmark_returns.some) =>
        \A j \in 1..Len(trade_dates) :
            Matched(j) => benchmark_returns.v[j] = KnownReturns[trade_dates[j]]

\* the benchmark has a close on exactly the strategy's dates, three of them or
\* more, and the returns of the later dates are in the aligned series
C20_Witness ==
    /\ Aligned
    /\ module = "risk"
    /\ benchmark_df.kind = "ok"
    /\ benchmark_df.dates = Range(trade_dates)
    /\ Len(trade_dates) >= 3
    /\ benchmark_returns.some
    /\ \A j \in 2..Len(trade_dates) :
          /\ Matched(j)
          /\ benchmark_returns.v[j] # Zero
          /\ benchmark_returns.v[j] = KnownReturns[trade_dates[j]]

(***************************************************************************)
(* The first strategy date (checked under SpecAligner)                     *)
(***************************************************************************)
\* C21: when the first strategy date has no matching benchmark return, its
\* aligned value is 0; it is never filled from another date
C21_FirstUnmatchedIsZero ==
    (Aligned /\ benchmark_returns.some /\ ~Matched(1)) =>
        benchmark_returns.v[1] = Zero

\* the first date has no match while a later date has a non-zero return that
\* a fill from another date would have copied into the first slot
C21_Witness ==
    /\ Aligned
    /\ benchmark_returns.some
    /\ ~Matched(1)
    /\ \E j \in 2..Len(trade_dates) :
          Matched(j) /\ benchmark_returns.v[j] # Zero

(***************************************************************************)
(* Daily Aggregator: main of task3/risk.py and load_and_process_data of    *)
(* task4/imrisk.py, from the normalized trades to the daily P&L series     *)
(***************************************************************************)
\* pd.to_datetime(df['日期'], format=..., errors='coerce'), the time of day is
\* not read: the day, or 0 for NaT
DateOnly(r, sep) == IF r.date.sep = sep THEN r.date.day ELSE 0

\* a variant of the grouping that keeps the first trade of a day
GroupFirst(df, sep, day) ==
    SelectSeq(df, LAMBDA r : DateOnly(r, sep) = day)[1].net.n

\* df.groupby('日期_仅')['净盈亏'].sum() for one key
GroupSum(df, sep, day) ==
    LET rows == SelectSeq(df, LAMBDA r : DateOnly(r, sep) = day)
    IN  SumQ([i \in 1..Len(rows) |-> rows[i].net]).n

\* the dates of daily_pnl after sort_values('日期'): the group keys of
\* df.groupby('日期_仅'), where the NaT key is dropped
GroupedDates(df, sep) ==
    SortedSeq({DateOnly(df[i], sep) : i \in 1..Len(df)} \ {0})

GroupedPnL(df, sep) ==
    [j \in 1..Len(GroupedDates(df, sep)) |-> GroupSum(df, sep, GroupedDates(df, sep)[j])]

\* get_au0_close_prices(start_date, end_date): the days with a close between
\* the first and the last date, or None
get_au0_close_prices(frame, dates) ==
    LET D == {d \in frame.dates :
                 d >= MinOf(Range(dates)) /\ d <= MaxOf(Range(dates))}
    IN  IF frame.kind = "error" \/ dates = <<>> \/ D = {} THEN None ELSE Some(D)

\* a variant of the merge that keeps the days with a trade only
TradeDatesOnly(frame, dates) == dates

\* all_days.merge(daily_pnl, on='日期', how='left') and fillna(0.0)
ExpandedDates(frame, dates) ==
    LET cal == get_au0_close_prices(frame, dates)
    IN  IF cal.some THEN SortedSeq(cal.v) ELSE dates

ExpandedPnL(frame, dates, pnl) ==
    LET days == ExpandedDates(frame, dates)
    IN  [j \in 1..Len(days) |->
            IF \E i \in 1..Len(dates) : dates[i] = days[j]
            THEN pnl[CHOOSE i \in 1..Len(dates) : dates[i] = days[j]]
            ELSE 0]

\* trades of the ledger file that reach the aggregator: filled early or late
\* in the day, dated in either notation
TradeLedgers ==
    {[i \in 1..Len(rows) |->
        [line |-> i, date |-> rows[i].date, time |-> rows[i].time, qty |-> rows[i].qty,
         price |-> rows[i].price, amount |-> rows[i].amount, pnl |-> rows[i].pnl,
         fee |-> rows[i].fee]] :
        rows \in SeqFromTo({RawRow(sep, day, kind) :
                               sep \in {"/", "-"}, day \in 1..MaxDate,
                               kind \in {"good", "late"}}, 1, MaxRows)}

\* the trading calendar: the days on which the price collaborator has a close
Calendars ==
    {[kind |-> "error", dates |-> {}, closes |-> <<>>]} \cup
    {[kind |-> "ok", dates |-> D, closes |-> <<100, 102, 101, 105>>] :
        D \in SUBSET (1..MaxDate)}

AggregatorInit ==
    /\ module \in {"risk", "imrisk"}
    /\ pc = "normalized"
    /\ trade_df \in {Some(df) :
          df \in UNION {IF module = "risk" THEN preprocess_data(l)
                        ELSE ImriskPreprocessed(l) : l \in TradeLedgers}}
    /\ metrics = None
    /\ BuilderIdle
    /\ trade_dates = <<>>
    /\ benchmark_df \in (IF module = "risk" THEN Calendars
                         ELSE {[kind |-> "error", dates |-> {}, closes |-> <<>>]})
    /\ benchmark_returns = None

\* risk.py 906-909: group by date, sum, sort
RiskGroup ==
    /\ module = "risk"
    /\ pc = "normalized"
    /\ trade_dates' = GroupedDates(trade_df.v, "/")
    /\ daily_pnl' = GroupedPnL(trade_df.v, "/")
    /\ pc' = "grouped"
    /\ UNCHANGED <<module, initial_capital, daily_ret, benchmark_df,
                   benchmark_returns, metricVars>>

\* risk.py 911-921: the days of the price calendar, 0 where no trade was made
RiskExpand ==
    /\ module = "risk"
    /\ pc = "grouped"
    /\ trade_dates' = ExpandedDates(benchmark_df, trade_dates)
    /\ daily_pnl' = ExpandedPnL(benchmark_df, trade_dates, daily_pnl)
    /\ pc' = "aggregated"
    /\ UNCHANGED <<module, initial_capital, daily_ret, benchmark_df,
                   benchmark_returns, metricVars>>

\* imrisk.py 161-165
ImriskAggregate ==
    /\ module = "imrisk"
    /\ pc = "normalized"
    /\ trade_dates' = GroupedDates(trade_df.v, "-")
    /\ daily_pnl' = GroupedPnL(trade_df.v, "-")
    /\ pc' = "aggregated"
    /\ UNCHANGED <<module, initial_capital, daily_ret, benchmark_df,
                   benchmark_returns, metricVars>>

AggregatorNext == RiskGroup \/ RiskExpand \/ ImriskAggregate

SpecAggregator == AggregatorInit /\ [][AggregatorNext]_vars

(***************************************************************************)
(* Claims about the Daily Aggregator (checked under SpecAggregator)        *)
(***************************************************************************)
\* the grouping has run: the output of risk.py before the calendar merge, and
\* the output of imrisk.py
Grouped == pc = "grouped" \/ (module = "imrisk" /\ pc = "aggregated")

Aggregated == pc = "aggregated"

\* the calendar date of a normalized trade (0: it has none)
TradeDay(r) == DateOnly(r, IF module = "risk" THEN "/" ELSE "-")

TradeDays == {TradeDay(trade_df.v[i]) : i \in 1..Len(trade_df.v)} \ {0}

\* the sum of netPnL over the trades of the days in D
NetOn(D) ==
    LET rows == SelectSeq(trade_df.v, LAMBDA r : TradeDay(r) \in D)
    IN  SumQ([i \in 1..Len(rows) |-> rows[i].net]).n

CalendarDays == IF benchmark_df.kind = "ok" THEN benchmark_df.dates ELSE {}

\* the calendar days between the first and the last trade date without a trade
FlatDays ==
    {d \in CalendarDays \ TradeDays :
        TradeDays # {} /\ d > MinOf(TradeDays) /\ d < MaxOf(TradeDays)}

\* C23: with a trading calendar, every calendar day between the first and
\* the last trade date on which no trade occurred is a row of the daily
\* series with dailyPnL = 0, so that cumulativePnL does not change on it
C23_FlatDaysAppearWithZero ==
    (Aggregated /\ module = "risk") =>
        \A d \in FlatDays :
            \E j \in 1..Len(trade_dates) :
                /\ trade_dates[j] = d
                /\ \A k \in 1..Len(trade_dates) : trade_dates[k] = d => k = j
                /\ daily_pnl[j] = 0
                /\ CumPnL(daily_pnl)[j] = (IF j = 1 THEN 0 ELSE CumPnL(daily_pnl)[j - 1])

C23_Witness ==
    /\ Aggregated
    /\ module = "risk"
    /\ Cardinality(FlatDays) = 2
    /\ \E j \in 2..Len(daily_pnl) : daily_pnl[j] # 0

(***************************************************************************)
(* The worked example of the Return Series Builder (under SpecBuilder)     *)
(***************************************************************************)
\* daily P&L [100, -50, 200] on an initial capital of 1000; imrisk.py and
\* pac.py fix the capital at 1,000,000, where the same example is a
\* thousand times larger
ExampleInput ==
    \E k \in {1, 1000} :
        /\ initial_capital = 1000 * k
        /\ daily_pnl = <<100 * k, -50 * k, 200 * k>>

\* x is y when both are rounded at the last decimal the example prints
Approx(x, y, tol) == Lt(AbsQ(Sub(x, y)), tol)

\* Total Returns, in percent
TotalReturn ==
    get_total_returns(Z(initial_capital + SumInt(daily_pnl)), Z(initial_capital))

\* C24 as stated: the returns are about [0.1, -0.0455, 0.2095] and the Total
\* Return is about 26.36%
C24_ExampleAsStated ==
    (Built /\ module \in {"risk", "imrisk", "pac"} /\ ExampleInput) =>
        /\ Approx(daily_ret[1], Q(1, 10), Q(1, 10000))
        /\ Approx(daily_ret[2], Q(-455, 10000), Q(1, 10000))
        /\ Approx(daily_ret[3], Q(2095, 10000), Q(1, 10000))
        /\ Approx(TotalReturn, Q(2636, 100), Q(1, 100))

\* C24 amended: on prior-day equity the returns are 100/1000, -50/1100 and
\* 200/1050, about [0.1, -0.0455, 0.1905]; the Total Return is 25%, which
\* is also what the three returns compound to
C24_ExampleOnPriorEquity ==
    (Built /\ module \in {"risk", "imrisk", "pac"} /\ ExampleInput) =>
        /\ daily_ret = <<Q(1, 10), Q(-1, 22), Q(4, 21)>>
        /\ Approx(daily_ret[2], Q(-455, 10000), Q(1, 10000))
        /\ Approx(daily_ret[3], Q(1905, 10000), Q(1, 10000))
        /\ TotalReturn = Z(25)
        /\ Sub(ProdQ(OnePlus(daily_ret)), One) = Q(1, 4)

C24_Witness ==
    /\ Built
    /\ module = "risk"
    /\ initial_capital = 1000
    /\ daily_pnl = <<100, -50, 200>>
    /\ Len(daily_ret) = 3

(***************************************************************************)
(* The worked example of the Benchmark Aligner (under SpecAligner)         *)
(***************************************************************************)
\* closes [100, 102, 101, 105] on the four consecutive dates of the strategy
ExampleCloses ==
    /\ trade_dates = <<1, 2, 3, 4>>
    /\ benchmark_df = [kind |-> "ok", dates |-> {1, 2, 3, 4},
                       closes |-> <<100, 102, 101, 105>>]

\* C25: the benchmark returns of the example are undefined on the first
\* date and the simple percentage changes 0.02, -0.0098 and 0.0396 on the
\* others; after alignment the first slot is 0 and the other three values
\* are unchanged
C25_ExampleCloses ==
    (Aligned /\ ExampleCloses) =>
        /\ DOMAIN KnownReturns = {2, 3, 4}
        /\ KnownReturns[2] = Q(2, 100)
        /\ Approx(KnownReturns[3], Q(-98, 10000), Q(1, 10000))
        /\ Approx(KnownReturns[4], Q(396, 10000), Q(1, 10000))
        /\ benchmark_returns =
              Some(<<Zero, KnownReturns[2], KnownReturns[3], KnownReturns[4]>>)

C25_Witness ==
    /\ Aligned
    /\ ExampleCloses
    /\ benchmark_returns.some
    /\ Len(benchmark_returns.v) = 4

(***************************************************************************)
(* Conservation of P&L (checked under SpecAggregator)                      *)
(***************************************************************************)
\* the net P&L of every normalized trade
LedgerNet == SumQ([i \in 1..Len(trade_df.v) |-> trade_df.v[i].net]).n

\* C26: on every day of the final daily series cumulativePnL is the sum of
\* netPnL over the normalized trades dated on or before it; no trade's
\* netPnL is lost when the series is merged onto the trading calendar, and
\* the final cumulativePnL is the total netPnL of the ledger
C26_PnLConserved ==
    (Aggregated /\ Len(trade_df.v) > 0) =>
        /\ \A j \in 1..Len(trade_dates) :
              CumPnL(daily_pnl)[j] = NetOn({d \in TradeDays : d <= trade_dates[j]})
        /\ SumInt(daily_pnl) = LedgerNet

\* every trade has a date that parses, and still P&L is missing at the end
C26_LostOnCalendar ==
    /\ Aggregated
    /\ module = "risk"
    /\ \A i \in 1..Len(trade_df.v) : TradeDay(trade_df.v[i]) # 0
    /\ SumInt(daily_pnl) # LedgerNet

SameDateBeta ==
    LET dp == Take(daily_ret, MinLen(benchmark_returns, daily_ret))
        p  == PairedP(dp, benchmark_returns.v)
        m  == PairedM(dp, benchmark_returns.v)
    IN  CASE module = "risk"   -> get_beta(p, Some(m))
          [] module = "imrisk" -> imrisk_get_beta(p, Some(m))
          [] OTHER             -> risk3_beta(p, Some(m))

\* C28: Beta is computed over same-date pairs only: removing a non-finite
\* value from one series does not shift the pairing of the later values
C28_SameDatePairs ==
    (Computed /\ module \in {"risk", "imrisk", "risk3"} /\ benchmark_returns.some) =>
        metrics.v[BetaKey] = SameDateBeta

(***************************************************************************)
(* Benchmark Volatility (checked under SpecMetrics)                        *)
(***************************************************************************)
\* the aligned benchmark starts with the 0 the aligner defines for the first
\* day, and every value is finite
ZeroFirstDay ==
    /\ benchmark_returns.some
    /\ Len(benchmark_returns.v) >= 1
    /\ benchmark_returns.v[1] = Zero
    /\ \A i \in 1..Len(benchmark_returns.v) : IsFin(benchmark_returns.v[i])

\* C29: Benchmark Volatility is the annualised standard deviation of Dm
\* without its first day and with every later day, a later day with a zero
\* return included (0 when fewer than two days remain)
C29_OnlyFirstDayExcluded ==
    (Computed /\ module \in {"risk", "imrisk"} /\ ZeroFirstDay) =>
        metrics.v[BenchmarkVolatilityKey] =
            (IF Len(benchmark_returns.v) < 3 THEN Zero
             ELSE AnnualStd(Tail(benchmark_returns.v), 1, TRADING_DAYS_PER_YEAR, 100))

(***************************************************************************)
(* Downside Risk (checked under SpecMetrics)                               *)
(***************************************************************************)
\* the returns the engine is given (main of risk.py cuts them to the length
\* of the benchmark first)
EngineReturns ==
    IF module = "risk" THEN Take(daily_ret, MinLen(benchmark_returns, daily_ret))
    ELSE daily_ret

\* the returns below the mean of the whole series
BelowOverallMean ==
    SelectSeq(EngineReturns, LAMBDA x : Lt(x, Mean(EngineReturns)))

\* C30: Downside Risk is the annualised population standard deviation of
\* the returns that fall below the mean of the whole return series, not
\* below the running mean up to each day
C30_BelowOverallMean ==
    (Computed /\ module \in {"risk", "imrisk"} /\ AllKnown) =>
        metrics.v[DownsideRiskKey] =
            (IF Len(BelowOverallMean) < 2 THEN Zero
             ELSE AnnualStd(BelowOverallMean, 0, TRADING_DAYS_PER_YEAR, 100))

====
